---- MODULE Spec2Model ----
(***************************************************************************)
(* Verification model of the SODAX marketing MCP server's content layer:   *)
(* the three cached services (glossary, brand bible, marketing stats),     *)
(* their upstream adapters, normalizers and the operations built on them.  *)
(*                                                                         *)
(* Execution model: Node.js runs one callback to completion at a time, so  *)
(* every action below is one uninterrupted run of JavaScript between two   *)
(* suspension points (an operation's synchronous prefix up to its first    *)
(* awaited upstream request, or the handler of one upstream response with  *)
(* everything that follows it synchronously or in microtasks).  The wall   *)
(* clock is the variable now; it may advance between any two steps.        *)
(***************************************************************************)
EXTENDS Integers, Sequences, FiniteSets, TLC

\* ------------------------------------------------------------------------
\* Bounds of the model
\* ------------------------------------------------------------------------

\* Largest value of the clock.
MaxTime == 3
\* Largest number of rows in an upstream table drawn for the normalizer.
MaxRows == 3
\* Largest number of blocks in a brand page drawn for the normalizer.
MaxBlocks == 4

\* ------------------------------------------------------------------------
\* Program constants (src/src/constants.ts).  One clock tick of the model
\* stands for 150000 ms, so the 5 minute durations are 2 ticks.
\* ------------------------------------------------------------------------

CACHE_DURATION_MS == 2
GLOSSARY_CACHE_DURATION_MS == 2
STATS_CACHE_DURATION_MS == 2

\* ------------------------------------------------------------------------
\* Strings: a JavaScript string is the sequence of its characters.
\* ------------------------------------------------------------------------

UpperChars == <<"A","B","C","D","E","F","G","H","I","J","K","L","M","N","O","P","Q","R","S","T","U","V","W","X","Y","Z">>
LowerChars == <<"a","b","c","d","e","f","g","h","i","j","k","l","m","n","o","p","q","r","s","t","u","v","w","x","y","z">>

\* String.prototype.toLowerCase, one character.
LowerChar(c) ==
  IF \E i \in 1..Len(UpperChars) : UpperChars[i] = c
  THEN LowerChars[CHOOSE i \in 1..Len(UpperChars) : UpperChars[i] = c]
  ELSE c

\* String.prototype.toLowerCase.
ToLowerCase(s) == [i \in 1..Len(s) |-> LowerChar(s[i])]

\* String.prototype.includes: sub occurs in s as a contiguous substring.
Includes(s, sub) ==
  \E i \in 0..(Len(s) - Len(sub)) :
    \A j \in 1..Len(sub) : s[i + j] = sub[j]

\* Array.prototype.join("") of an array of strings.
RECURSIVE JoinAll(_)
JoinAll(parts) ==
  IF parts = <<>> THEN <<>> ELSE Head(parts) \o JoinAll(Tail(parts))

\* ------------------------------------------------------------------------
\* Glossary normalizer (src/src/services/glossary.ts)
\*
\* A Notion page is [full, properties]; full is what isFullPage tests, and
\* properties is the page's property object as the sequence of its
\* <<key, property>> entries in insertion order.  A property is a record
\* with its type and the one value field of that type; a rich-text array is
\* a sequence of [plain_text] items.  An optional string (owner) is the
\* sequence of at most one string, <<>> standing for undefined.
\* ------------------------------------------------------------------------

Undefined == [type |-> "undefined"]

\* props[key]: the property stored under key, or undefined.
PropAt(props, key) ==
  IF \E i \in 1..Len(props) : props[i][1] = key
  THEN props[CHOOSE i \in 1..Len(props) : props[i][1] = key][2]
  ELSE Undefined

\* Object.values(props).find(p => p.type === "title"), or undefined.
FindTitleProp(props) ==
  IF \E i \in 1..Len(props) : props[i][2].type = "title"
  THEN props[CHOOSE i \in 1..Len(props) :
               /\ props[i][2].type = "title"
               /\ \A j \in 1..(i - 1) : props[j][2].type # "title"][2]
  ELSE Undefined

richTextToPlain(rt) == JoinAll([i \in 1..Len(rt) |-> rt[i].plain_text])

SummaryKeys == <<"One-sentency summary", "Summary", "Description">>

\* The for-loop over the summary keys: a rich_text property overwrites
\* summary, and the loop stops at the first non-empty one.
RECURSIVE SummaryLoop(_, _, _)
SummaryLoop(props, keys, summary) ==
  IF keys = <<>> THEN summary
  ELSE LET prop == PropAt(props, Head(keys))
       IN IF prop.type = "rich_text"
          THEN LET s == richTextToPlain(prop.rich_text)
               IN IF s # <<>> THEN s ELSE SummaryLoop(props, Tail(keys), s)
          ELSE SummaryLoop(props, Tail(keys), summary)

\* The owner of a page: the first person's name, or the Owner rich text.
OwnerOf(props) ==
  LET ownerProp == PropAt(props, "Owner")
  IN IF ownerProp.type = "people" /\ Len(ownerProp.people) > 0
     THEN ownerProp.people[1].name
     ELSE IF ownerProp.type = "rich_text"
          THEN LET s == richTextToPlain(ownerProp.rich_text)
               IN IF s = <<>> THEN <<>> ELSE <<s>>
          ELSE <<>>

\* Mutant of pageToTerm: drops a row only when title and summary are both
\* empty.
PageToTermDropsOnlyBoth(page, category) ==
  LET props == page.properties
      titleProp == FindTitleProp(props)
      title == IF titleProp.type = "title" THEN richTextToPlain(titleProp.title) ELSE <<>>
      summary == SummaryLoop(props, SummaryKeys, <<>>)
      tagsProp == PropAt(props, "Tags")
      tags == IF tagsProp.type = "multi_select"
              THEN [i \in 1..Len(tagsProp.multi_select) |-> tagsProp.multi_select[i].name]
              ELSE <<>>
  IN IF title = <<>> /\ summary = <<>> THEN <<>>
     ELSE << [title |-> title, summary |-> summary, tags |-> tags,
              category |-> category, owner |-> OwnerOf(props)] >>

\* pageToTerm: the term of a page, as <<term>>, or <<>> for null.
pageToTerm(page, category) ==
  LET props == page.properties
      titleProp == FindTitleProp(props)
      title == IF titleProp.type = "title" THEN richTextToPlain(titleProp.title) ELSE <<>>
      summary == SummaryLoop(props, SummaryKeys, <<>>)
      tagsProp == PropAt(props, "Tags")
      tags == IF tagsProp.type = "multi_select"
              THEN [i \in 1..Len(tagsProp.multi_select) |-> tagsProp.multi_select[i].name]
              ELSE <<>>
  IN IF title = <<>> \/ summary = <<>> THEN <<>>
     ELSE << [title |-> title, summary |-> summary, tags |-> tags,
              category |-> category, owner |-> OwnerOf(props)] >>

\* The body of queryDatabase's for-loop over response.results: pages that
\* are not full pages and pages without a term are skipped.
RECURSIVE TermsOfResults(_, _)
TermsOfResults(results, category) ==
  IF results = <<>> THEN <<>>
  ELSE LET page == Head(results)
           rest == TermsOfResults(Tail(results), category)
       IN IF ~page.full THEN rest ELSE pageToTerm(page, category) \o rest

\* Mutant of the cursor: the loop stops after the first response.
NextCursorStops(response) == 0

\* cursor = response.has_more ? (response.next_cursor ?? undefined) : undefined
\* A cursor is a positive number; 0 stands for undefined and for null.
NextCursor(response) == IF response.has_more THEN response.next_cursor ELSE 0

\* The upstream's paginated listing of a table (a sequence of pages, each a
\* sequence of records): the page the cursor names, whether more follow, and
\* the cursor of the next page.
NotionList(table, cursor) ==
  LET k == IF cursor = 0 THEN 1 ELSE cursor
  IN [results |-> table[k],
      has_more |-> k < Len(table),
      next_cursor |-> IF k < Len(table) THEN k + 1 ELSE 0]

\* ------------------------------------------------------------------------
\* Brand bible normalizer (src/unnamed/part_002, the Notion API service)
\*
\* A block is [full, type, rich_text, checked]; full is the test
\* "type" in block of fetchAllBlocks.
\* ------------------------------------------------------------------------

Digits == <<"0","1","2","3","4","5","6","7","8","9">>

\* Mutant of String(n): every number is written "1".
ToStrAlwaysOne(n) == <<Digits[2]>>

\* String(n) for a natural number: its decimal digits.
RECURSIVE ToStr(_)
ToStr(n) ==
  IF n < 10 THEN <<Digits[n + 1]>>
  ELSE ToStr(n \div 10) \o <<Digits[(n % 10) + 1]>>

IsSpace(c) == c \in {" ", "\n", "\t"}

RECURSIVE TrimStart(_)
TrimStart(s) ==
  IF s # <<>> /\ IsSpace(Head(s)) THEN TrimStart(Tail(s)) ELSE s

RECURSIVE TrimEnd(_)
TrimEnd(s) ==
  IF s # <<>> /\ IsSpace(s[Len(s)]) THEN TrimEnd(SubSeq(s, 1, Len(s) - 1)) ELSE s

\* String.prototype.trim.
Trim(s) == TrimEnd(TrimStart(s))

RichTextTypes ==
  {"paragraph", "heading_1", "heading_2", "heading_3", "numbered_list_item",
   "toggle", "quote", "callout", "code"}

getBlockText(block) ==
  IF block.type \in RichTextTypes THEN richTextToPlain(block.rich_text)
  ELSE IF block.type = "bulleted_list_item"
       THEN <<"bullet", " ">> \o richTextToPlain(block.rich_text)
  ELSE IF block.type = "to_do"
       THEN (IF block.checked THEN <<"checked-box", " ">> ELSE <<"empty-box", " ">>)
            \o richTextToPlain(block.rich_text)
  ELSE IF block.type = "divider" THEN <<"-", "-", "-">>
  ELSE <<>>

\* content += (content ? "\n\n" : "") + text
AppendContent(content, text) ==
  content \o (IF content # <<>> THEN <<"\n", "\n">> ELSE <<>>) \o text

\* Mutant of the parser's start: the section counter starts at 1.
ParseStartOffByOne ==
  [sections |-> <<>>, currentSection |-> 0, currentSubsection |-> 0,
   sectionIndex |-> 1, subsectionIndex |-> 0]

\* Mutant of the parser's start: a section is open before the first heading.
ParseStartInSection ==
  [sections |-> << [id |-> <<"0">>, title |-> <<>>, content |-> <<>>,
                    subsections |-> <<>>] >>,
   currentSection |-> 1, currentSubsection |-> 0,
   sectionIndex |-> 0, subsectionIndex |-> 0]

\* The parser's variables before the loop.  currentSection is the index in
\* sections of the section object it refers to, currentSubsection the index
\* in that section's subsections; 0 is null.
ParseStart ==
  [sections |-> <<>>, currentSection |-> 0, currentSubsection |-> 0,
   sectionIndex |-> 0, subsectionIndex |-> 0]

\* One iteration of the for-loop of parseBlocksIntoBrandBible.
ParseBlock(st, block) ==
  LET text == Trim(getBlockText(block))
      cs == st.currentSection
      csub == st.currentSubsection
  IN IF text = <<>> THEN st
     ELSE IF block.type = "heading_1"
     THEN [st EXCEPT
             !.sectionIndex = st.sectionIndex + 1,
             !.subsectionIndex = 0,
             !.sections = Append(st.sections,
                 [id |-> ToStr(st.sectionIndex + 1), title |-> text,
                  content |-> <<>>, subsections |-> <<>>]),
             !.currentSection = Len(st.sections) + 1,
             !.currentSubsection = 0]
     ELSE IF block.type = "heading_2" /\ cs # 0
     THEN [st EXCEPT
             !.subsectionIndex = st.subsectionIndex + 1,
             !.sections[cs].subsections = Append(@,
                 [id |-> st.sections[cs].id \o <<".">> \o ToStr(st.subsectionIndex + 1),
                  parentId |-> st.sections[cs].id, title |-> text,
                  content |-> <<>>]),
             !.currentSubsection = Len(st.sections[cs].subsections) + 1]
     ELSE IF block.type = "heading_3" /\ csub # 0
     THEN [st EXCEPT
             !.sections[cs].subsections[csub].content =
                 AppendContent(@, <<"*", "*">> \o text \o <<"*", "*">>)]
     ELSE IF csub # 0
     THEN [st EXCEPT
             !.sections[cs].subsections[csub].content = AppendContent(@, text)]
     ELSE IF cs # 0
     THEN [st EXCEPT !.sections[cs].content = AppendContent(@, text)]
     ELSE st

RECURSIVE ParseLoop(_, _)
ParseLoop(st, blocks) ==
  IF blocks = <<>> THEN st ELSE ParseLoop(ParseBlock(st, Head(blocks)), Tail(blocks))

parseBlocksIntoBrandBible(blocks, time) ==
  [title |-> "SODAX Brand Bible", lastUpdated |-> time,
   sections |-> ParseLoop(ParseStart, blocks).sections]

\* The body of fetchAllBlocks's for-loop over response.results.
BlocksOfResults(results) == SelectSeq(results, LAMBDA b : b.full)

\* ------------------------------------------------------------------------
\* Hardcoded fallback content.  Titles, tags and categories are the source's;
\* each summary and each default section body is abridged to its opening
\* words.
\* ------------------------------------------------------------------------

FALLBACK_SYSTEM_CONCEPTS == <<
  [title |-> <<"M","o","d","e","r","n"," ","m","o","n","e","y">>,
   summary |-> <<"M","o","n","e","y"," ","t","h","a","t"," ","e","x","i","s","t","s"," ","i","n"," ","p","r","o","g","r","a","m","m","a","b","l","e",","," ","m","u","l","t","i","-","n","e","t","w","o","r","k"," ","s","y","s","t","e","m","s">>,
   tags |-> << <<"m","o","n","e","y">>,
             <<"p","r","o","g","r","a","m","m","a","b","l","e">>,
             <<"m","u","l","t","i","-","n","e","t","w","o","r","k">>,
             <<"e","x","e","c","u","t","i","o","n">> >>,
   category |-> "system-concept", owner |-> <<>>] >>

FALLBACK_SYSTEM_COMPONENTS == <<
  [title |-> <<"M","o","n","e","y"," ","M","a","r","k","e","t">>,
   summary |-> <<"A"," ","c","r","o","s","s","-","n","e","t","w","o","r","k"," ","m","o","n","e","y"," ","m","a","r","k","e","t">>,
   tags |-> << <<"m","o","n","e","y","-","m","a","r","k","e","t">>,
             <<"l","e","n","d","i","n","g">>,
             <<"b","o","r","r","o","w","i","n","g">>,
             <<"c","r","o","s","s","-","n","e","t","w","o","r","k">>,
             <<"c","a","p","i","t","a","l">>,
             <<"y","i","e","l","d">>,
             <<"s","o","l","v","e","r">>,
             <<"s","d","k">> >>,
   category |-> "system-component", owner |-> <<>>],
  [title |-> <<"A","M","M">>,
   summary |-> <<"T","h","e"," ","S","O","D","A","X"," ","A","M","M">>,
   tags |-> << <<"s","y","s","t","e","m">>,
             <<"a","m","m">>,
             <<"l","i","q","u","i","d","i","t","y">>,
             <<"e","x","e","c","u","t","i","o","n">>,
             <<"s","e","t","t","l","e","m","e","n","t">> >>,
   category |-> "system-component", owner |-> <<>>],
  [title |-> <<"s","o","d","a","V","a","r","i","a","n","t","s">>,
   summary |-> <<"s","o","d","a","V","a","r","i","a","n","t","s"," ","a","r","e"," ","h","o","w"," ","S","O","D","A","X"," ","e","x","t","e","n","d","s"," ","a","s","s","e","t","s">>,
   tags |-> << <<"s","y","s","t","e","m">>,
             <<"a","s","s","e","t","s">>,
             <<"l","i","q","u","i","d","i","t","y">>,
             <<"e","x","e","c","u","t","i","o","n">>,
             <<"c","r","o","s","s","-","n","e","t","w","o","r","k">> >>,
   category |-> "system-component", owner |-> <<>>],
  [title |-> <<"L","i","q","u","i","d","i","t","y">>,
   summary |-> <<"L","i","q","u","i","d","i","t","y"," ","i","s"," ","t","h","e"," ","S","O","D","A","X"," ","s","y","s","t","e","m"," ","c","o","m","p","o","n","e","n","t">>,
   tags |-> << <<"s","y","s","t","e","m">>,
             <<"l","i","q","u","i","d","i","t","y">>,
             <<"i","n","v","e","n","t","o","r","y">>,
             <<"e","x","e","c","u","t","i","o","n">>,
             <<"c","r","o","s","s","-","n","e","t","w","o","r","k">> >>,
   category |-> "system-component", owner |-> <<>>],
  [title |-> <<"S","o","l","v","e","r">>,
   summary |-> <<"T","h","e"," ","S","o","l","v","e","r"," ","i","s"," ","t","h","e"," ","p","a","r","t"," ","o","f"," ","S","O","D","A","X">>,
   tags |-> << <<"r","o","u","t","i","n","g">>,
             <<"s","o","l","v","e","r">>,
             <<"c","r","o","s","s","-","n","e","t","w","o","r","k">>,
             <<"e","x","e","c","u","t","i","o","n">>,
             <<"l","i","q","u","i","d","i","t","y">> >>,
   category |-> "system-component", owner |-> <<>>],
  [title |-> <<"C","o","o","r","d","i","n","a","t","o","r">>,
   summary |-> <<"T","h","e"," ","c","o","o","r","d","i","n","a","t","o","r"," ","i","s"," ","a"," ","s","o","l","v","e","r"," ","c","o","m","p","o","n","e","n","t">>,
   tags |-> << <<"s","y","s","t","e","m">>,
             <<"s","o","l","v","e","r">>,
             <<"c","o","o","r","d","i","n","a","t","o","r">>,
             <<"e","x","e","c","u","t","i","o","n">>,
             <<"c","r","o","s","s","-","n","e","t","w","o","r","k">> >>,
   category |-> "system-component", owner |-> <<>>] >>

\* Object.entries(BRAND_SECTIONS): <<id, title>> in key order.
BRAND_SECTIONS == <<
  << <<"1">>, <<"I","n","t","r","o","d","u","c","t","i","o","n"," ","&"," ","B","r","a","n","d"," ","O","v","e","r","v","i","e","w">> >>,
  << <<"2">>, <<"B","r","a","n","d"," ","V","o","i","c","e"," ","&"," ","T","o","n","e">> >>,
  << <<"3">>, <<"V","i","s","u","a","l"," ","I","d","e","n","t","i","t","y">> >>,
  << <<"4">>, <<"M","e","s","s","a","g","i","n","g"," ","F","r","a","m","e","w","o","r","k">> >>,
  << <<"5">>, <<"C","o","n","t","e","n","t"," ","G","u","i","d","e","l","i","n","e","s">> >>,
  << <<"6">>, <<"B","r","a","n","d"," ","A","p","p","l","i","c","a","t","i","o","n","s">> >> >>

createDefaultBrandBible(time) ==
  [title |-> "SODAX Brand Bible", lastUpdated |-> time,
   sections |-> [i \in 1..Len(BRAND_SECTIONS) |->
      [id |-> BRAND_SECTIONS[i][1], title |-> BRAND_SECTIONS[i][2],
       content |-> <<"C","o","n","t","e","n","t"," ","f","o","r"," ">> \o BRAND_SECTIONS[i][2]
                   \o <<"."," ","P","l","e","a","s","e"," ","s","e","t"," ","N","O","T","I","O","N","_","T","O","K","E","N">>,
       subsections |-> <<>>]]]

\* ------------------------------------------------------------------------
\* Marketing stats adapter (src/unnamed/part_001)
\*
\* The outcome of one axios.get is [ok |-> FALSE] (network error, timeout,
\* 4xx/5xx: the promise rejects) or [ok |-> TRUE, data |-> body].  Each
\* fetch function's result is [throws, value]: what its promise settles to.
\* ------------------------------------------------------------------------

Endpoints == {"networks", "partners", "tokenSupply", "moneyMarketAssets", "recentIntentsCount"}

CHAIN_NAMES ==
  [sonic |-> "Sonic", solana |-> "Solana", hyper |-> "Hyperliquid",
   lightlink |-> "LightLink", stellar |-> "Stellar", sui |-> "Sui",
   ethereum |-> "Ethereum"]
  @@ ("0xa86a.avax" :> "Avalanche") @@ ("0xa4b1.arbitrum" :> "Arbitrum")
  @@ ("0x2105.base" :> "Base") @@ ("0xa.optimism" :> "Optimism")
  @@ ("0x38.bsc" :> "BNB Chain") @@ ("0x89.polygon" :> "Polygon")
  @@ ("injective-1" :> "Injective") @@ ("0x1.icon" :> "ICON")

getChainName(chainId) ==
  IF chainId \in DOMAIN CHAIN_NAMES THEN CHAIN_NAMES[chainId] ELSE chainId

Returns(v) == [throws |-> FALSE, value |-> v]
Throws == [throws |-> TRUE]

fetchNetworks(res) ==
  IF res.ok
  THEN Returns([i \in 1..Len(res.data) |->
                  [id |-> res.data[i], name |-> getChainName(res.data[i])]])
  ELSE Returns(<<>>)

\* Mutant of fetchPartners: no try/catch, so a failed request rejects.
FetchPartnersUncaught(res) ==
  IF res.ok
  THEN Returns([i \in 1..Len(res.data.partners) |-> [address |-> res.data.partners[i]]])
  ELSE Throws

fetchPartners(res) ==
  IF res.ok
  THEN Returns([i \in 1..Len(res.data.partners) |-> [address |-> res.data.partners[i]]])
  ELSE Returns(<<>>)

ZeroSupply ==
  [totalSupply |-> "0", circulatingSupply |-> "0", lockedSupply |-> "0",
   daoFund |-> <<>>, blockNumber |-> <<>>]

fetchTokenSupply(res) ==
  IF res.ok
  THEN Returns([totalSupply |-> res.data.totalSupply,
                circulatingSupply |-> res.data.circulatingSupply,
                lockedSupply |-> res.data.lockedSupply,
                daoFund |-> res.data.daoFund,
                blockNumber |-> res.data.block])
  ELSE Returns(ZeroSupply)

fetchMoneyMarketAssets(res) ==
  IF res.ok
  THEN Returns([i \in 1..Len(res.data) |->
                  [symbol |-> res.data[i].symbol,
                   reserveAddress |-> res.data[i].reserveAddress,
                   totalSupplied |-> res.data[i].totalATokenBalance,
                   totalBorrowed |-> res.data[i].totalVariableDebtTokenBalance,
                   totalSuppliers |-> res.data[i].totalSuppliers,
                   totalBorrowers |-> res.data[i].totalBorrowers]])
  ELSE Returns(<<>>)

\* response.data.total || 0
fetchRecentIntentsCount(res) ==
  IF res.ok THEN Returns(res.data.total) ELSE Returns(0)

EmptyStats(time) ==
  [networks |-> <<>>, networkCount |-> 0, partners |-> <<>>, partnerCount |-> 0,
   tokenSupply |-> ZeroSupply, moneyMarketAssets |-> <<>>,
   recentIntentsCount |-> 0, lastUpdated |-> time]

\* The stats object fetchMarketingStats builds from the five results.
BuildStats(networks, partners, tokenSupply, moneyMarketAssets, recentIntentsCount, time) ==
  [networks |-> networks, networkCount |-> Len(networks),
   partners |-> partners, partnerCount |-> Len(partners),
   tokenSupply |-> tokenSupply, moneyMarketAssets |-> moneyMarketAssets,
   recentIntentsCount |-> recentIntentsCount, lastUpdated |-> time]

\* The bodies the backend API serves when a request succeeds.
ApiOk ==
  [networks |-> {[ok |-> TRUE, data |-> <<"sonic", "0x2105.base", "kaia">>]},
   partners |-> {[ok |-> TRUE, data |-> [partners |-> <<"0xA1", "0xB2">>]]},
   tokenSupply |-> {[ok |-> TRUE, data |->
       [totalSupply |-> "1500", circulatingSupply |-> "900", lockedSupply |-> "600",
        daoFund |-> <<"100">>, block |-> <<>>]]},
   moneyMarketAssets |-> {[ok |-> TRUE, data |->
       <<[symbol |-> "bnUSD", reserveAddress |-> "0xR1",
          totalATokenBalance |-> "70", totalVariableDebtTokenBalance |-> "30",
          totalSuppliers |-> 4, totalBorrowers |-> 2]>>]},
   recentIntentsCount |-> {[ok |-> TRUE, data |-> [total |-> 12]],
                           [ok |-> TRUE, data |-> [total |-> 0]]}]

Failed == [ok |-> FALSE]

\* Every combination of outcomes of the five requests of one refresh.
StatsOutcomes ==
  [networks : ApiOk.networks \cup {Failed},
   partners : ApiOk.partners \cup {Failed},
   tokenSupply : ApiOk.tokenSupply \cup {Failed},
   moneyMarketAssets : ApiOk.moneyMarketAssets \cup {Failed},
   recentIntentsCount : ApiOk.recentIntentsCount \cup {Failed}]

\* The combinations followed through the interleavings of callers: all
\* requests succeed, all fail, only the partner request fails, only the
\* order count (zero) arrives.
AllOk ==
  [networks |-> CHOOSE r \in ApiOk.networks : TRUE,
   partners |-> CHOOSE r \in ApiOk.partners : TRUE,
   tokenSupply |-> CHOOSE r \in ApiOk.tokenSupply : TRUE,
   moneyMarketAssets |-> CHOOSE r \in ApiOk.moneyMarketAssets : TRUE,
   recentIntentsCount |-> [ok |-> TRUE, data |-> [total |-> 12]]]

StatsOutcomesFollowed ==
  {AllOk,
   [e \in Endpoints |-> Failed],
   [AllOk EXCEPT !.partners = Failed],
   [e \in Endpoints |-> IF e = "recentIntentsCount"
                        THEN [ok |-> TRUE, data |-> [total |-> 0]] ELSE Failed]}

\* ------------------------------------------------------------------------
\* Upstream content the model draws from
\* ------------------------------------------------------------------------

\* A complete row (the spec's end-to-end example).
RowAMM ==
  [full |-> TRUE, properties |-> <<
    <<"Name", [type |-> "title", title |-> <<[plain_text |-> <<"A","M","M">>]>>]>>,
    <<"One-sentency summary", [type |-> "rich_text", rich_text |-> <<[plain_text |-> <<"A","n"," ","e","x","c","h","a","n","g","e",".">>]>>]>>,
    <<"Tags", [type |-> "multi_select", multi_select |-> <<[name |-> <<"l","i","q","u","i","d","i","t","y">>]>>]>> >>]

\* A row whose title is empty.
RowNoTitle ==
  [full |-> TRUE, properties |-> <<
    <<"Name", [type |-> "title", title |-> <<>>]>>,
    <<"Summary", [type |-> "rich_text", rich_text |-> <<[plain_text |-> <<"x">>]>>]>> >>]

\* A row whose first summary field is empty and whose Description is not;
\* the title comes in two rich-text items.
RowSolver ==
  [full |-> TRUE, properties |-> <<
    <<"Name", [type |-> "title", title |-> <<[plain_text |-> <<"S","o","l">>], [plain_text |-> <<"v","e","r">>]>>]>>,
    <<"One-sentency summary", [type |-> "rich_text", rich_text |-> <<>>]>>,
    <<"Description", [type |-> "rich_text", rich_text |-> <<[plain_text |-> <<"R","o","u","t","e","s",".">>]>>]>>,
    <<"Tags", [type |-> "multi_select", multi_select |-> <<[name |-> <<"s","o","l","v","e","r">>], [name |-> <<"l","i","q","u","i","d","i","t","y">>]>>]>>,
    <<"Owner", [type |-> "people", people |-> <<[name |-> << <<"A","n","n">> >>]>>]>> >>]

\* A row whose summary fields are all empty or of another type.
RowNoSummary ==
  [full |-> TRUE, properties |-> <<
    <<"Name", [type |-> "title", title |-> <<[plain_text |-> <<"H","u","b">>]>>]>>,
    <<"One-sentency summary", [type |-> "rich_text", rich_text |-> <<[plain_text |-> <<>>]>>]>>,
    <<"Summary", [type |-> "number"]>>,
    <<"Tags", [type |-> "multi_select", multi_select |-> <<[name |-> <<"s","o","l","v","e","r">>]>>]>> >>]

\* A partial page object: isFullPage is false and it carries no properties.
RowPartial ==
  [full |-> FALSE, properties |-> <<
     >>]

\* A complete row without tags.
RowIntent ==
  [full |-> TRUE, properties |-> <<
    <<"Name", [type |-> "title", title |-> <<[plain_text |-> <<"I","n","t","e","n","t">>]>>]>>,
    <<"Summary", [type |-> "rich_text", rich_text |-> <<[plain_text |-> <<"A"," ","g","o","a","l",".">>]>>]>>,
    <<"Owner", [type |-> "rich_text", rich_text |-> <<[plain_text |-> <<"B","o">>]>>]>> >>]

RawRows == {RowAMM, RowNoTitle, RowSolver, RowNoSummary, RowPartial, RowIntent}

\* The tables of the running service: two pages of concepts, one of components.
ConceptsTable == << <<RowAMM, RowNoTitle>>, <<RowIntent>> >>
ComponentsTable == << <<RowSolver, RowPartial, RowNoSummary>> >>

\* The brand page: two listing pages of blocks (the spec's end-to-end example
\* first), and a page without any top-level heading.
BrandPageIntro == <<
  << [full |-> TRUE, type |-> "heading_1", rich_text |-> <<[plain_text |-> <<"I","n","t","r","o">>]>>, checked |-> FALSE],
     [full |-> TRUE, type |-> "heading_2", rich_text |-> <<[plain_text |-> <<"C","o","l","o","r","s">>]>>, checked |-> FALSE],
     [full |-> TRUE, type |-> "paragraph", rich_text |-> <<[plain_text |-> <<"U","s","e"," ","r","e","d",".">>]>>, checked |-> FALSE] >>,
  << [full |-> TRUE, type |-> "paragraph", rich_text |-> <<[plain_text |-> <<" "," ">>]>>, checked |-> FALSE],
     [full |-> TRUE, type |-> "heading_3", rich_text |-> <<[plain_text |-> <<"H","e","x">>]>>, checked |-> FALSE],
     [full |-> TRUE, type |-> "heading_1", rich_text |-> <<[plain_text |-> <<"V","o","i","c","e">>]>>, checked |-> FALSE] >> >>

BrandPageNoHeading == <<
  << [full |-> TRUE, type |-> "heading_2", rich_text |-> <<[plain_text |-> <<"C","o","l","o","r","s">>]>>, checked |-> FALSE],
     [full |-> TRUE, type |-> "paragraph", rich_text |-> <<[plain_text |-> <<"U","s","e"," ","r","e","d",".">>]>>, checked |-> FALSE] >> >>

BrandPages == {BrandPageIntro, BrandPageNoHeading}

\* ------------------------------------------------------------------------
\* State
\* ------------------------------------------------------------------------

VARIABLES
  service,        \* the service this run exercises (the three share no state)
  NOTION_TOKEN,   \* whether process.env.NOTION_TOKEN is set
  now,            \* the wall clock, in ticks
  notionClient,   \* per Notion service: whether its lazy client exists
  cached,         \* per service: cachedGlossary / cachedBrandBible / cachedStats
  lastFetch,      \* per service: lastGlossaryFetchTime / lastFetchTime / lastStatsFetchTime
  conceptsTable,  \* upstream: the system-concepts database, as listing pages
  componentsTable,\* upstream: the system-components database, as listing pages
  brandPage,      \* upstream: the brand bible page's blocks, as listing pages
  tasks           \* the operations in flight, one record per caller

vars ==
  <<service, NOTION_TOKEN, now, notionClient, cached, lastFetch,
    conceptsTable, componentsTable, brandPage, tasks>>

upstream == <<conceptsTable, componentsTable, brandPage>>

Services == {"glossary", "brand", "stats"}
NotionServices == {"glossary", "brand"}

\* Number of concurrent callers.
NumTasks == 2
Tasks == 1..NumTasks

\* null, for a snapshot and for a Date.
Null == [null |-> TRUE]
NullTime == -1

TTL(d) ==
  CASE d = "glossary" -> GLOSSARY_CACHE_DURATION_MS
    [] d = "brand" -> CACHE_DURATION_MS
    [] d = "stats" -> STATS_CACHE_DURATION_MS

\* Mutant of the validity test: the comparison is inverted.
IsCacheValidInverted(d) ==
  IF cached[d] = Null \/ lastFetch[d] = NullTime THEN FALSE
  ELSE now - lastFetch[d] > TTL(d)

\* isGlossaryCacheValid / isCacheValid / isStatsCacheValid
isCacheValid(d) ==
  IF cached[d] = Null \/ lastFetch[d] = NullTime THEN FALSE
  ELSE now - lastFetch[d] < TTL(d)

\* Mutant of the cache test: forceRefresh is ignored.
ServeFromCacheIgnoringForce(d, forceRefresh) ==
  isCacheValid(d) /\ cached[d] # Null

\* if (!forceRefresh && isCacheValid() && cached) return cached;
ServeFromCache(d, forceRefresh) ==
  ~forceRefresh /\ isCacheValid(d) /\ cached[d] # Null

\* Mutant of getNotionClient(): a client is returned without a token.
HasNotionClientAlways(d) == TRUE

\* getNotionClient() returns a client: one exists already, or the token is set.
HasNotionClient(d) == notionClient[d] \/ NOTION_TOKEN

\* The snapshot of the hardcoded content.
DefaultSnapshot(d, time) ==
  IF d = "glossary"
  THEN [title |-> "SODAX Technical Glossary", lastUpdated |-> time,
        terms |-> FALLBACK_SYSTEM_CONCEPTS \o FALLBACK_SYSTEM_COMPONENTS]
  ELSE createDefaultBrandBible(time)

\* What a call of fetchGlossary / fetchBrandBible / fetchMarketingStats
\* settles to is [throws, store, value]: whether it rejects, whether it
\* assigned the cache, and the snapshot it returns.
Hit(d) == [throws |-> FALSE, store |-> FALSE, value |-> cached[d]]

\* Mutant of the fallback: the default snapshot is returned without caching it.
UseFallbackUncached(d) ==
  [throws |-> FALSE, store |-> FALSE, value |-> DefaultSnapshot(d, now)]

\* The "Fallback" tail of fetchGlossary and fetchBrandBible.
UseFallback(d) ==
  [throws |-> FALSE, store |-> TRUE, value |-> DefaultSnapshot(d, now)]

\* Mutant of the catch block: the cached snapshot is not consulted.
OnNotionErrorForgetsCache(d) == UseFallback(d)

\* The catch block of fetchGlossary and fetchBrandBible.
OnNotionError(d) ==
  IF cached[d] # Null THEN Hit(d) ELSE UseFallback(d)

\* Mutant of the glossary snapshot: built from the concepts alone.
GlossaryFetchedConceptsOnly(concepts, components) ==
  [throws |-> FALSE, store |-> TRUE,
   value |-> [title |-> "SODAX Technical Glossary", lastUpdated |-> now,
              terms |-> concepts]]

\* fetchGlossary after both queries resolved.
GlossaryFetched(concepts, components) ==
  [throws |-> FALSE, store |-> TRUE,
   value |-> [title |-> "SODAX Technical Glossary", lastUpdated |-> now,
              terms |-> concepts \o components]]

\* fetchBrandBible after fetchAllBlocks resolved.
BrandFetched(blocks) ==
  LET brandBible == parseBlocksIntoBrandBible(blocks, now)
  IN IF Len(brandBible.sections) > 0
     THEN [throws |-> FALSE, store |-> TRUE, value |-> brandBible]
     ELSE UseFallback("brand")

\* fetchMarketingStats after the five requests settled: Promise.all rejects
\* when one of the five promises does, and the catch block then returns the
\* cached stats or an empty record it does not cache.
StatsFetched(out) ==
  LET networks == fetchNetworks(out.networks)
      partners == fetchPartners(out.partners)
      tokenSupply == fetchTokenSupply(out.tokenSupply)
      moneyMarketAssets == fetchMoneyMarketAssets(out.moneyMarketAssets)
      recentIntentsCount == fetchRecentIntentsCount(out.recentIntentsCount)
  IN IF \/ networks.throws \/ partners.throws \/ tokenSupply.throws
        \/ moneyMarketAssets.throws \/ recentIntentsCount.throws
     THEN IF cached["stats"] # Null THEN Hit("stats")
          ELSE [throws |-> FALSE, store |-> FALSE, value |-> EmptyStats(now)]
     ELSE [throws |-> FALSE, store |-> TRUE,
           value |-> BuildStats(networks.value, partners.value, tokenSupply.value,
                                moneyMarketAssets.value, recentIntentsCount.value, now)]

\* Mutant of the cache assignment: the timestamp is not written.
StoreSnapshotOnly(d, snap) ==
  /\ cached' = [cached EXCEPT ![d] = snap]
  /\ UNCHANGED lastFetch

\* cached = snapshot; lastFetchTime = new Date();
StoreSnapshot(d, snap) ==
  /\ cached' = [cached EXCEPT ![d] = snap]
  /\ lastFetch' = [lastFetch EXCEPT ![d] = now]

\* ------------------------------------------------------------------------
\* Glossary queries (src/src/services/glossary.ts)
\* ------------------------------------------------------------------------

\* getTerm on a snapshot's terms: the first term whose lowercased title
\* equals or includes the lowercased argument, as <<term>>; <<>> for null.
FindTerm(terms, termTitle) ==
  LET q == ToLowerCase(termTitle)
      Match(t) == ToLowerCase(t.title) = q \/ Includes(ToLowerCase(t.title), q)
  IN IF \E i \in 1..Len(terms) : Match(terms[i])
     THEN << terms[CHOOSE i \in 1..Len(terms) :
                     /\ Match(terms[i])
                     /\ \A j \in 1..(i - 1) : ~Match(terms[j])] >>
     ELSE <<>>

\* Mutant of the tag test: tags are compared ignoring case.
SharesTagIgnoringCase(term, other) ==
  \E i \in 1..Len(term.tags) : \E j \in 1..Len(other.tags) :
    ToLowerCase(term.tags[i]) = ToLowerCase(other.tags[j])

\* other.tags.includes(tag) for some tag of term
SharesTag(term, other) ==
  \E i \in 1..Len(term.tags) : \E j \in 1..Len(other.tags) :
    term.tags[i] = other.tags[j]

\* The loop of translateTerm that collects relatedTerms.
RECURSIVE RelatedLoop(_, _)
RelatedLoop(term, terms) ==
  IF terms = <<>> THEN <<>>
  ELSE LET other == Head(terms)
           rest == RelatedLoop(term, Tail(terms))
       IN IF other.title = term.title THEN rest
          ELSE IF SharesTag(term, other) THEN <<other.title>> \o rest
          ELSE rest

\* Mutant of slice(0, n): nothing is cut.
SliceToUncut(s, n) == s

\* Array.prototype.slice(0, n)
SliceTo(s, n) == SubSeq(s, 1, IF Len(s) < n THEN Len(s) ELSE n)

\* The object translateTerm returns (simpleExplanation left out: a rewriting
\* of technicalDefinition that no state depends on).
Translation(term, glossary) ==
  [kind |-> "translation", term |-> term.title, category |-> term.category,
   technicalDefinition |-> term.summary,
   relatedTerms |-> SliceTo(RelatedLoop(term, glossary.terms), 5)]

\* ------------------------------------------------------------------------
\* Query engine: the string and array operations the searches are built on
\* ------------------------------------------------------------------------

\* String.prototype.split(/\s+/): the pieces between maximal runs of
\* whitespace.  A string that starts or ends with whitespace yields an empty
\* first or last piece, and the empty string yields one empty piece.
RECURSIVE SplitLoop(_, _, _)
SplitLoop(s, piece, inGap) ==
  IF s = <<>> THEN <<piece>>
  ELSE IF IsSpace(Head(s))
       THEN IF inGap THEN SplitLoop(Tail(s), piece, TRUE)
            ELSE <<piece>> \o SplitLoop(Tail(s), <<>>, TRUE)
       ELSE SplitLoop(Tail(s), Append(piece, Head(s)), FALSE)

SplitWhitespace(s) == SplitLoop(s, <<>>, FALSE)

\* Array.prototype.join(" ") of an array of strings.
RECURSIVE JoinSpace(_)
JoinSpace(parts) ==
  IF parts = <<>> THEN <<>>
  ELSE IF Len(parts) = 1 THEN Head(parts)
  ELSE Head(parts) \o <<" ">> \o JoinSpace(Tail(parts))

\* String.prototype.indexOf, 0-based; -1 when sub does not occur.
IndexOf(s, sub) ==
  IF Includes(s, sub)
  THEN CHOOSE i \in 0..(Len(s) - Len(sub)) :
         /\ \A j \in 1..Len(sub) : s[i + j] = sub[j]
         /\ \A k \in 0..(i - 1) : \E j \in 1..Len(sub) : s[k + j] # sub[j]
  ELSE -1

\* String.prototype.substring(start, end) for 0 <= start <= end <= length.
Substring(s, start, end) == SubSeq(s, start + 1, end)

\* Array.prototype.sort((a, b) => b.score - a.score) on an array of
\* [score, item]: descending by score, elements of equal score in their
\* original order (the sort is stable).
RECURSIVE InsertByScore(_, _)
InsertByScore(sorted, x) ==
  IF sorted = <<>> THEN <<x>>
  ELSE IF x.score > Head(sorted).score THEN <<x>> \o sorted
  ELSE <<Head(sorted)>> \o InsertByScore(Tail(sorted), x)

\* Mutant of the sort: the array is left in the order it was built.
SortByScoreSkipped(items) == items

RECURSIVE SortByScore(_)
SortByScore(items) ==
  IF items = <<>> THEN <<>>
  ELSE InsertByScore(SortByScore(SubSeq(items, 1, Len(items) - 1)), items[Len(items)])

\* ------------------------------------------------------------------------
\* Regular expressions, new RegExp(word, "gi"), for words over letters,
\* digits, "." and "(": a letter or digit matches itself, "." matches any
\* character but a line terminator, and a "(" that nothing closes is a
\* syntax error, which the constructor throws.
\* ------------------------------------------------------------------------

RegExpThrows(word) == \E i \in 1..Len(word) : word[i] = "("

\* The pattern matches text at 0-based position i.
MatchesAt(text, word, i) ==
  /\ i + Len(word) <= Len(text)
  /\ \A j \in 1..Len(word) :
       IF word[j] = "." THEN text[i + j] # "\n" ELSE text[i + j] = word[j]

\* The positions from i on at which the pattern matches.
MatchPositions(text, word, i) == {j \in i..Len(text) : MatchesAt(text, word, j)}

\* text.match(regex) with the g flag: the matches found scanning from the
\* left, each search resuming at the end of the last match (one character
\* further after an empty match); their number, 0 standing for null.
\* Matches of at most one character cannot overlap, so every position
\* where the pattern matches is one of them.
RECURSIVE CountMatches(_, _, _)
CountMatches(text, word, i) ==
  LET hits == MatchPositions(text, word, i)
  IN IF Len(word) <= 1 THEN Cardinality(hits)
     ELSE IF hits = {} THEN 0
     ELSE LET first == CHOOSE j \in hits : \A k \in hits : j <= k
          IN 1 + CountMatches(text, word, first + Len(word))

\* ------------------------------------------------------------------------
\* Glossary search (src/src/services/glossary.ts)
\* ------------------------------------------------------------------------

\* No category argument.
AnyCategory == "any"

\* term.tags.some((tag) => tag.toLowerCase().includes(w))
SomeTagIncludes(term, w) ==
  \E i \in 1..Len(term.tags) : Includes(ToLowerCase(term.tags[i]), w)

\* The inner loop of searchGlossary: the score the words give a term.
RECURSIVE WordsScore(_, _)
WordsScore(term, words) ==
  IF words = <<>> THEN 0
  ELSE LET w == Head(words)
       IN (IF Includes(ToLowerCase(term.title), w) THEN 10 ELSE 0)
          + (IF SomeTagIncludes(term, w) THEN 5 ELSE 0)
          + (IF Includes(ToLowerCase(term.summary), w) THEN 2 ELSE 0)
          + WordsScore(term, Tail(words))

\* The score of one term in searchGlossary.
TermScore(term, query) ==
  WordsScore(term, SplitWhitespace(ToLowerCase(query)))
  + (IF ToLowerCase(term.title) = ToLowerCase(query) THEN 20 ELSE 0)

\* The outer loop of searchGlossary: the array scored.
RECURSIVE ScoredTerms(_, _, _)
ScoredTerms(terms, query, category) ==
  IF terms = <<>> THEN <<>>
  ELSE LET term == Head(terms)
           rest == ScoredTerms(Tail(terms), query, category)
       IN IF category # AnyCategory /\ term.category # category THEN rest
          ELSE IF TermScore(term, query) > 0
          THEN <<[score |-> TermScore(term, query), item |-> term]>> \o rest
          ELSE rest

\* What searchGlossary returns on a snapshot.
SearchGlossary(glossary, query, category) ==
  LET sorted == SortByScore(ScoredTerms(glossary.terms, query, category))
  IN [i \in 1..Len(sorted) |-> sorted[i].item]

\* ------------------------------------------------------------------------
\* Brand bible queries (src/unnamed/part_002)
\* ------------------------------------------------------------------------

\* Mutant of getSection: the first section stands in for a missing one.
GetSectionOrFirst(brandBible, sectionId) ==
  LET found == SelectSeq(brandBible.sections, LAMBDA s : s.id = sectionId)
  IN IF found = <<>> THEN SubSeq(brandBible.sections, 1, 1) ELSE <<Head(found)>>

\* getSection on a snapshot: <<section>>, or <<>> for null.
GetSection(brandBible, sectionId) ==
  LET found == SelectSeq(brandBible.sections, LAMBDA s : s.id = sectionId)
  IN IF found = <<>> THEN <<>> ELSE <<Head(found)>>

\* getSubsection on a snapshot: the first match in the first section that
\* has one, as <<subsection>>, or <<>> for null.
RECURSIVE GetSubsectionLoop(_, _)
GetSubsectionLoop(sections, subsectionId) ==
  IF sections = <<>> THEN <<>>
  ELSE LET found == SelectSeq(Head(sections).subsections, LAMBDA s : s.id = subsectionId)
       IN IF found # <<>> THEN <<Head(found)>>
          ELSE GetSubsectionLoop(Tail(sections), subsectionId)

GetSubsection(brandBible, subsectionId) ==
  GetSubsectionLoop(brandBible.sections, subsectionId)

\* calculateRelevanceScore for words whose regular expressions compile.
RECURSIVE RelevanceLoop(_, _, _)
RelevanceLoop(textLower, words, queryWords) ==
  IF words = <<>> THEN 0
  ELSE LET matches == CountMatches(textLower, Head(words), 0)
       IN (IF matches > 0
           THEN matches + (IF Includes(textLower, JoinSpace(queryWords)) THEN 5 ELSE 0)
           ELSE 0)
          + RelevanceLoop(textLower, Tail(words), queryWords)

calculateRelevanceScore(text, queryWords) ==
  RelevanceLoop(ToLowerCase(text), queryWords, queryWords)

\* calculateRelevanceScore throws: new RegExp(word, "gi") does, for one of
\* the words.
RelevanceThrows(queryWords) ==
  \E i \in 1..Len(queryWords) : RegExpThrows(queryWords[i])

\* The default contextLength of extractMatchContext.
ContextLength == 150

Max(a, b) == IF a > b THEN a ELSE b
Min(a, b) == IF a < b THEN a ELSE b

\* The words of queryWords that occur in contentLower.
WordsFound(contentLower, queryWords) ==
  SelectSeq(queryWords, LAMBDA w : IndexOf(contentLower, w) # -1)

extractMatchContext(content, queryWords) ==
  LET contentLower == ToLowerCase(content)
      found == WordsFound(contentLower, queryWords)
  IN IF found # <<>>
     THEN LET word == Head(found)
              index == IndexOf(contentLower, word)
              start == Max(0, index - (ContextLength \div 2))
              end == Min(Len(content), index + Len(word) + (ContextLength \div 2))
          IN (IF start > 0 THEN <<".", ".", ".">> ELSE <<>>)
             \o Substring(content, start, end)
             \o (IF end < Len(content) THEN <<".", ".", ".">> ELSE <<>>)
     ELSE IF Len(content) > ContextLength
          THEN Substring(content, 0, ContextLength) \o <<".", ".", ".">>
          ELSE content

\* The results searchBrandBible pushes for the subsections of a section.
RECURSIVE SubsectionResults(_, _, _)
SubsectionResults(section, subsections, queryWords) ==
  IF subsections = <<>> THEN <<>>
  ELSE LET subsection == Head(subsections)
           subsectionScore ==
             calculateRelevanceScore(subsection.title \o <<" ">> \o subsection.content,
                                     queryWords)
           rest == SubsectionResults(section, Tail(subsections), queryWords)
       IN IF subsectionScore > 0
          THEN << [sectionId |-> section.id, sectionTitle |-> section.title,
                   subsectionId |-> <<subsection.id>>,
                   subsectionTitle |-> <<subsection.title>>,
                   matchedContent |-> extractMatchContext(subsection.content, queryWords),
                   relevanceScore |-> subsectionScore] >> \o rest
          ELSE rest

\* The results searchBrandBible pushes, in the order it pushes them.  The
\* optional subsectionId and subsectionTitle are <<>> when absent.
RECURSIVE SectionResults(_, _)
SectionResults(sections, queryWords) ==
  IF sections = <<>> THEN <<>>
  ELSE LET section == Head(sections)
           sectionScore ==
             calculateRelevanceScore(section.title \o <<" ">> \o section.content,
                                     queryWords)
       IN (IF sectionScore > 0
           THEN << [sectionId |-> section.id, sectionTitle |-> section.title,
                    subsectionId |-> <<>>, subsectionTitle |-> <<>>,
                    matchedContent |-> extractMatchContext(section.content, queryWords),
                    relevanceScore |-> sectionScore] >>
           ELSE <<>>)
          \o SubsectionResults(section, section.subsections, queryWords)
          \o SectionResults(Tail(sections), queryWords)

\* What searchBrandBible does on a snapshot: it throws (when the snapshot has
\* a section to score and a word's regular expression does not compile), or
\* returns the sorted results cut to maxResults.
SearchBrandBible(brandBible, query, maxResults) ==
  LET queryWords == SplitWhitespace(ToLowerCase(query))
  IN IF brandBible.sections # <<>> /\ RelevanceThrows(queryWords)
     THEN [throws |-> TRUE, value |-> <<>>]
     ELSE LET results == SectionResults(brandBible.sections, queryWords)
              sorted == SortByScore([i \in 1..Len(results) |->
                           [score |-> results[i].relevanceScore, item |-> results[i]]])
          IN [throws |-> FALSE,
              value |-> SliceTo([i \in 1..Len(sorted) |-> sorted[i].item], maxResults)]

\* ------------------------------------------------------------------------
\* Operations in flight
\*
\* A task is one caller's operation: op is "fetch" (fetchX(forceRefresh)
\* itself, and every helper that awaits fetchX() once before it computes
\* its answer), "translate" (translateTerm) or "refresh" (refreshX).
\*   pc        idle, fetching (an upstream request is awaited), second
\*             (translateTerm between getTerm's return and its own call of
\*             fetchGlossary), done
\*   call      which call of fetchX the operation is in (1 or 2)
\*   concepts, components, blocks   the paginated queries in flight:
\*             cursor, accumulated items, done
\*   term      translateTerm's local term
\*   ret       what the operation returned
\* History fields, read by no action:
\*   attempts      upstream fetches this operation started
\*   startExpired  a snapshot was cached and expired when it was issued
\*   live          how the last upstream fetch of this operation ended:
\*                 none, ok, failed
\*   seen          the outcomes of the five requests of its stats fetch
\*
\* Callers are interchangeable and meet only in the cache, which an
\* operation touches only inside its calls of fetchX.  Task 1 is therefore
\* followed in full, with its history and its result; every other task
\* stands for a concurrent caller of any operation by the fetch it makes:
\* it keeps only the queries in flight, and its slot is free again as soon
\* as that fetch has settled.
\* ------------------------------------------------------------------------

NoQuery == [cursor |-> 0, items |-> <<>>, done |-> TRUE]
NewQuery == [cursor |-> 0, items |-> <<>>, done |-> FALSE]
NoResult == [kind |-> "none"]
NoOutcomes == [e \in Endpoints |-> [ok |-> FALSE, none |-> TRUE]]

IdleTask ==
  [pc |-> "idle", op |-> "none", force |-> FALSE, arg |-> <<>>,
   category |-> AnyCategory, maxResults |-> 0, call |-> 0,
   concepts |-> NoQuery, components |-> NoQuery, blocks |-> NoQuery,
   term |-> <<>>, ret |-> NoResult,
   attempts |-> 0, startExpired |-> FALSE, live |-> "none", seen |-> NoOutcomes]

Followed(t) == t = 1

Ops(d) == IF d = "glossary" THEN {"fetch", "translate", "refresh"} ELSE {"fetch", "refresh"}

\* The queries with an argument that await fetchX() once and answer from the
\* snapshot it returns.
QueryOps(d) ==
  CASE d = "glossary" -> {"searchGlossary"}
    [] d = "brand" -> {"getSection", "getSubsection", "searchBrandBible"}
    [] d = "stats" -> {}

\* The titles translateTerm is called with.
Titles == { <<"s","o","l">>, <<"N","o","n","e">> }

\* What the operation does once its call of fetchX has settled to res (the
\* continuation after the await, run as a microtask of the same step).
Continue(tk, res) ==
  LET t0 == [tk EXCEPT !.concepts = NoQuery, !.components = NoQuery, !.blocks = NoQuery]
  IN IF tk.op = "refresh"
     THEN [t0 EXCEPT !.pc = "done",
                     !.ret = [kind |-> "refresh", success |-> ~res.throws]]
     ELSE IF res.throws
     THEN [t0 EXCEPT !.pc = "done", !.ret = [kind |-> "throw"]]
     ELSE IF tk.op = "fetch"
     THEN [t0 EXCEPT !.pc = "done", !.ret = [kind |-> "snapshot", value |-> res.value]]
     ELSE IF tk.op = "searchGlossary"
     THEN [t0 EXCEPT !.pc = "done",
                     !.ret = [kind |-> "terms",
                              value |-> SearchGlossary(res.value, tk.arg, tk.category)]]
     ELSE IF tk.op = "getSection"
     THEN LET found == GetSection(res.value, tk.arg)
          IN [t0 EXCEPT !.pc = "done",
                        !.ret = IF found = <<>> THEN [kind |-> "null"]
                                ELSE [kind |-> "section", value |-> found[1]]]
     ELSE IF tk.op = "getSubsection"
     THEN LET found == GetSubsection(res.value, tk.arg)
          IN [t0 EXCEPT !.pc = "done",
                        !.ret = IF found = <<>> THEN [kind |-> "null"]
                                ELSE [kind |-> "subsection", value |-> found[1]]]
     ELSE IF tk.op = "searchBrandBible"
     THEN LET found == SearchBrandBible(res.value, tk.arg, tk.maxResults)
          IN [t0 EXCEPT !.pc = "done",
                        !.ret = IF found.throws THEN [kind |-> "throw"]
                                ELSE [kind |-> "results", value |-> found.value]]
     ELSE IF tk.call = 1
     THEN LET term == FindTerm(res.value.terms, tk.arg)
          IN IF term = <<>>
             THEN [t0 EXCEPT !.pc = "done", !.ret = [kind |-> "null"]]
             ELSE [t0 EXCEPT !.pc = "second", !.term = term]
     ELSE [t0 EXCEPT !.pc = "done", !.ret = Translation(tk.term[1], res.value)]

\* The call of fetchX has settled to res: the cache assignment it made, and
\* the caller's continuation.  live is how the upstream fetch ended, if the
\* call made one.
Settle(t, tk, res, live) ==
  /\ IF res.store THEN StoreSnapshot(service, res.value)
     ELSE UNCHANGED <<cached, lastFetch>>
  /\ tasks' = [tasks EXCEPT ![t] =
        IF Followed(t) THEN Continue([tk EXCEPT !.live = live], res) ELSE IdleTask]

\* Task t (its record being tk) calls fetchX(tk.force): the synchronous
\* prefix of the fetch, up to its first await or its return.
CallFetch(t, tk) ==
  IF ServeFromCache(service, tk.force)
  THEN /\ Settle(t, tk, Hit(service), tk.live)
       /\ UNCHANGED notionClient
  ELSE IF service \in NotionServices /\ ~HasNotionClient(service)
  THEN /\ Settle(t, tk, UseFallback(service), tk.live)
       /\ UNCHANGED notionClient
  ELSE /\ notionClient' = IF service \in NotionServices
                          THEN [notionClient EXCEPT ![service] = TRUE]
                          ELSE notionClient
       /\ tasks' = [tasks EXCEPT ![t] =
            [(IF Followed(t) THEN tk ELSE IdleTask) EXCEPT
                       !.pc = "fetching",
                       !.attempts = IF Followed(t) THEN @ + 1 ELSE @,
                       !.concepts = IF service = "glossary" THEN NewQuery ELSE NoQuery,
                       !.components = IF service = "glossary" THEN NewQuery ELSE NoQuery,
                       !.blocks = IF service = "brand" THEN NewQuery ELSE NoQuery]]
       /\ UNCHANGED <<cached, lastFetch>>

\* No continuation is queued as a microtask: only then can the event loop
\* run another callback.
NoMicrotask == \A t \in Tasks : tasks[t].pc # "second"

\* ------------------------------------------------------------------------
\* Actions
\* ------------------------------------------------------------------------

Init ==
  /\ service \in Services
  /\ NOTION_TOKEN \in (IF service = "stats" THEN {FALSE} ELSE BOOLEAN)
  /\ now = 0
  /\ notionClient = [d \in NotionServices |-> FALSE]
  /\ cached = [d \in Services |-> Null]
  /\ lastFetch = [d \in Services |-> NullTime]
  /\ conceptsTable = ConceptsTable
  /\ componentsTable = ComponentsTable
  /\ brandPage \in (IF service = "brand" THEN BrandPages ELSE {BrandPageIntro})
  /\ tasks = [t \in Tasks |-> IdleTask]

\* A caller issues an operation; it runs up to its first await.
Start(t, op, force, arg) ==
  /\ tasks[t].pc = "idle"
  /\ NoMicrotask
  /\ op \in Ops(service)
  /\ ~Followed(t) => op = "fetch"
  /\ op = "refresh" => force
  /\ op = "translate" => ~force
  /\ op = "translate" <=> arg # <<>>
  /\ CallFetch(t, [IdleTask EXCEPT
        !.op = op, !.force = force, !.arg = arg, !.call = 1,
        !.startExpired = /\ Followed(t)
                         /\ cached[service] # Null
                         /\ ~isCacheValid(service)])
  /\ UNCHANGED <<service, NOTION_TOKEN, now, upstream>>

\* A caller issues a query with an argument (searchGlossary(query, category),
\* getSection(id), getSubsection(id), searchBrandBible(query, maxResults));
\* it runs up to its first await.
StartQuery(t, op, arg, category, maxResults) ==
  /\ tasks[t].pc = "idle"
  /\ NoMicrotask
  /\ Followed(t)
  /\ op \in QueryOps(service)
  /\ op # "searchGlossary" => category = AnyCategory
  /\ op # "searchBrandBible" => maxResults = 0
  /\ CallFetch(t, [IdleTask EXCEPT
        !.op = op, !.arg = arg, !.category = category,
        !.maxResults = maxResults, !.call = 1,
        !.startExpired = /\ cached[service] # Null
                         /\ ~isCacheValid(service)])
  /\ UNCHANGED <<service, NOTION_TOKEN, now, upstream>>

\* translateTerm, after getTerm returned a term: const glossary = await fetchGlossary()
SecondFetch(t) ==
  /\ tasks[t].pc = "second"
  /\ CallFetch(t, [tasks[t] EXCEPT !.call = 2])
  /\ UNCHANGED <<service, NOTION_TOKEN, now, upstream>>

\* One response of notion.dataSources.query arrives for one of the two
\* queryDatabase calls of a glossary fetch, or the request fails.
GlossaryRespond(t, db, ok) ==
  LET tk == tasks[t]
      table == IF db = "concepts" THEN conceptsTable ELSE componentsTable
      category == IF db = "concepts" THEN "system-concept" ELSE "system-component"
      other == IF db = "concepts" THEN "components" ELSE "concepts"
      response == NotionList(table, tk[db].cursor)
      terms == tk[db].items \o TermsOfResults(response.results, category)
      cursor == NextCursor(response)
      tk2 == [tk EXCEPT ![db] = [cursor |-> cursor, items |-> terms, done |-> cursor = 0]]
  IN /\ service = "glossary"
     /\ tk.pc = "fetching"
     /\ ~tk[db].done
     /\ NoMicrotask
     /\ IF ~ok
        THEN Settle(t, tk, OnNotionError("glossary"), "failed")
        ELSE IF cursor = 0 /\ tk[other].done
        THEN Settle(t, tk2, GlossaryFetched(tk2.concepts.items, tk2.components.items), "ok")
        ELSE /\ tasks' = [tasks EXCEPT ![t] = tk2]
             /\ UNCHANGED <<cached, lastFetch>>
     /\ UNCHANGED <<service, NOTION_TOKEN, now, notionClient, upstream>>

\* One response of notion.blocks.children.list arrives for the fetchAllBlocks
\* of a brand fetch, or the request fails.
BrandRespond(t, ok) ==
  LET tk == tasks[t]
      response == NotionList(brandPage, tk.blocks.cursor)
      blocks == tk.blocks.items \o BlocksOfResults(response.results)
      cursor == NextCursor(response)
  IN /\ service = "brand"
     /\ tk.pc = "fetching"
     /\ NoMicrotask
     /\ IF ~ok
        THEN Settle(t, tk, OnNotionError("brand"), "failed")
        ELSE IF cursor = 0
        THEN Settle(t, tk, BrandFetched(blocks), "ok")
        ELSE /\ tasks' = [tasks EXCEPT ![t] =
                  [tk EXCEPT !.blocks = [cursor |-> cursor, items |-> blocks, done |-> FALSE]]]
             /\ UNCHANGED <<cached, lastFetch>>
     /\ UNCHANGED <<service, NOTION_TOKEN, now, notionClient, upstream>>

\* The five requests of a stats fetch have settled (their handlers touch
\* nothing but their own locals, so they are taken together with the join).
StatsRespond(t, out) ==
  LET tk == tasks[t]
  IN /\ service = "stats"
     /\ tk.pc = "fetching"
     /\ NoMicrotask
     /\ Settle(t, [tk EXCEPT !.seen = out], StatsFetched(out),
               IF \E e \in Endpoints : ~out[e].ok THEN "failed" ELSE "ok")
     /\ UNCHANGED <<service, NOTION_TOKEN, now, notionClient, upstream>>

\* The caller has taken the result; the slot serves the next caller.
Finish(t) ==
  /\ tasks[t].pc = "done"
  /\ tasks' = [tasks EXCEPT ![t] = IdleTask]
  /\ UNCHANGED <<service, NOTION_TOKEN, now, notionClient, cached, lastFetch, upstream>>

\* Time passes.
Tick ==
  /\ now < MaxTime
  /\ now' = now + 1
  /\ UNCHANGED <<service, NOTION_TOKEN, notionClient, cached, lastFetch, upstream, tasks>>

Next ==
  \/ \E t \in Tasks, op \in {"fetch", "translate", "refresh"}, force \in BOOLEAN,
        arg \in Titles \cup {<<>>} : Start(t, op, force, arg)
  \/ \E t \in Tasks : SecondFetch(t)
  \/ \E t \in Tasks, db \in {"concepts", "components"}, ok \in BOOLEAN :
        GlossaryRespond(t, db, ok)
  \/ \E t \in Tasks, ok \in BOOLEAN : BrandRespond(t, ok)
  \/ \E t \in Tasks, out \in StatsOutcomesFollowed : StatsRespond(t, out)
  \/ \E t \in Tasks : Finish(t)
  \/ Tick

Spec == Init /\ [][Next]_vars

\* ------------------------------------------------------------------------
\* The stats service alone, one caller, with every combination of outcomes
\* of the five requests.
\* ------------------------------------------------------------------------

InitStats ==
  /\ Init
  /\ service = "stats"

NextStats ==
  \/ \E force \in BOOLEAN : Start(1, "fetch", force, <<>>)
  \/ \E out \in StatsOutcomes : StatsRespond(1, out)
  \/ Finish(1)
  \/ Tick

SpecStats == InitStats /\ [][NextStats]_vars

\* ------------------------------------------------------------------------
\* The glossary normalizer on every concepts table of up to MaxRows rows, in
\* pages of one or two rows: one caller fetches once and every request
\* succeeds.
\* ------------------------------------------------------------------------

RECURSIVE Chunk(_, _)
Chunk(rows, size) ==
  IF Len(rows) <= size THEN <<rows>>
  ELSE <<SubSeq(rows, 1, size)>> \o Chunk(SubSeq(rows, size + 1, Len(rows)), size)

RowLists == UNION {[1..n -> RawRows] : n \in 0..MaxRows}

InitNorm ==
  /\ service = "glossary"
  /\ NOTION_TOKEN = TRUE
  /\ now = 0
  /\ notionClient = [d \in NotionServices |-> FALSE]
  /\ cached = [d \in Services |-> Null]
  /\ lastFetch = [d \in Services |-> NullTime]
  /\ \E rows \in RowLists, size \in {1, 2} : conceptsTable = Chunk(rows, size)
  /\ componentsTable = ComponentsTable
  /\ brandPage = BrandPageIntro
  /\ tasks = [t \in Tasks |-> IdleTask]

NextNorm ==
  \/ Start(1, "fetch", TRUE, <<>>)
  \/ \E db \in {"concepts", "components"} : GlossaryRespond(1, db, TRUE)

SpecNorm == InitNorm /\ [][NextNorm]_vars

\* ------------------------------------------------------------------------
\* The brand normalizer on every block list of up to MaxBlocks blocks, in
\* listing pages of two: one caller fetches once and every request succeeds.
\* ------------------------------------------------------------------------

\* A block of the given type with one rich-text item.
TextBlock(type, text) ==
  [full |-> TRUE, type |-> type, rich_text |-> <<[plain_text |-> text]>>, checked |-> FALSE]

BlockIntro == TextBlock("heading_1", <<"I","n","t","r","o">>)
BlockVoice == TextBlock("heading_1", <<"V","o","i","c","e">>)
BlockBlankHeading == TextBlock("heading_1", <<" ">>)
BlockColors == TextBlock("heading_2", <<"C","o","l","o","r","s">>)
BlockTone == TextBlock("heading_2", <<" ","T","o","n","e">>)
BlockHex == TextBlock("heading_3", <<"H","e","x">>)
BlockUseRed == TextBlock("paragraph", <<"U","s","e"," ","r","e","d",".">>)

RawBlocks == {BlockIntro, BlockVoice, BlockBlankHeading, BlockColors, BlockTone, BlockHex, BlockUseRed}

BlockLists == UNION {[1..n -> RawBlocks] : n \in 0..MaxBlocks}

InitParse ==
  /\ service = "brand"
  /\ NOTION_TOKEN = TRUE
  /\ now = 0
  /\ notionClient = [d \in NotionServices |-> FALSE]
  /\ cached = [d \in Services |-> Null]
  /\ lastFetch = [d \in Services |-> NullTime]
  /\ conceptsTable = ConceptsTable
  /\ componentsTable = ComponentsTable
  /\ \E blocks \in BlockLists : brandPage = Chunk(blocks, 2)
  /\ tasks = [t \in Tasks |-> IdleTask]

NextParse ==
  \/ Start(1, "fetch", TRUE, <<>>)
  \/ BrandRespond(1, TRUE)

SpecParse == InitParse /\ [][NextParse]_vars

\* ------------------------------------------------------------------------
\* The brand queries: one caller looks sections and subsections up and
\* searches, on the snapshot of either brand page or on the default one,
\* while the cache expires and Notion answers or fails.
\* ------------------------------------------------------------------------

LookupIds == {<<"1">>, <<"2">>, <<"1",".","1">>, <<"2",".","1">>, <<"6">>, <<"7">>, <<>>}

BrandQueries ==
  { <<"r","e","d">>,
    <<"o">>,
    <<"u","s","e"," ","r","e","d">>,
    <<"f","o","r">>,
    <<"C","o","l","o","r","s"," ","H","e","x">>,
    <<".">>,
    <<"c","(">>,
    <<"x">>,
    <<>>,
    <<" ","o">> }

MaxResultsArgs == {0, 1, 2, 5}

InitBrandQuery ==
  /\ service = "brand"
  /\ NOTION_TOKEN \in BOOLEAN
  /\ now = 0
  /\ notionClient = [d \in NotionServices |-> FALSE]
  /\ cached = [d \in Services |-> Null]
  /\ lastFetch = [d \in Services |-> NullTime]
  /\ conceptsTable = ConceptsTable
  /\ componentsTable = ComponentsTable
  /\ brandPage \in BrandPages
  /\ tasks = [t \in Tasks |-> IdleTask]

NextBrandQuery ==
  \/ \E op \in {"getSection", "getSubsection"}, id \in LookupIds :
        StartQuery(1, op, id, AnyCategory, 0)
  \/ \E query \in BrandQueries, maxResults \in MaxResultsArgs :
        StartQuery(1, "searchBrandBible", query, AnyCategory, maxResults)
  \/ \E ok \in BOOLEAN : BrandRespond(1, ok)
  \/ Finish(1)
  \/ Tick

SpecBrandQuery == InitBrandQuery /\ [][NextBrandQuery]_vars

\* ------------------------------------------------------------------------
\* The glossary queries: one caller searches and translates, on the
\* snapshot of a concepts database made for the search or on the fallback
\* one, while the cache expires and Notion answers or fails.
\* ------------------------------------------------------------------------

\* A complete row with the given title, summary and tags.
TermRow(title, summary, tags) ==
  [full |-> TRUE, properties |-> <<
    <<"Name", [type |-> "title", title |-> <<[plain_text |-> title]>>]>>,
    <<"Summary", [type |-> "rich_text", rich_text |-> <<[plain_text |-> summary]>>]>>,
    <<"Tags", [type |-> "multi_select",
               multi_select |-> [i \in 1..Len(tags) |-> [name |-> tags[i]]]]>> >>]

\* The concepts database made for the search, in two listing pages of five
\* rows.
SearchConceptsTable ==
  << <<
     TermRow(<<"S","w","a","p">>,
             <<"M","o","v","e","s"," ","v","a","l","u","e",".">>,
             << <<"d","e","f","i">> >>),
     TermRow(<<"C","r","o","s","s"," ","c","h","a","i","n"," ","s","w","a","p">>,
             <<"M","o","v","e","s"," ","v","a","l","u","e",".">>,
             <<  >>),
     TermRow(<<"C","r","o","s","s"," ","c","h","a","i","n"," ","s","w","a","p"," ","r","o","u","t","e","r">>,
             <<"R","o","u","t","e","s"," ","a"," ","c","r","o","s","s"," ","c","h","a","i","n"," ","s","w","a","p",".">>,
             << <<"c","r","o","s","s"," ","c","h","a","i","n"," ","s","w","a","p">>, <<"d","e","f","i">> >>),
     TermRow(<<"B","r","i","d","g","e">>,
             <<"A"," ","s","o","l","v","e","r"," ","r","o","u","t","e",".">>,
             << <<"d","e","f","i">> >>),
     TermRow(<<"Y","i","e","l","d"," ","p","o","o","l"," ","v","a","u","l","t">>,
             <<"A"," ","y","i","e","l","d"," ","p","o","o","l",".">>,
             << <<"y","i","e","l","d"," ","p","o","o","l">>, <<"d","e","f","i">> >>) >>,
     <<
     TermRow(<<"O","r","a","c","l","e">>,
             <<"F","e","e","d","s"," ","p","r","i","c","e","s",".">>,
             << <<"d","e","f","i">>, <<"D","a","t","a">> >>),
     TermRow(<<"R","e","l","a","y">>,
             <<"P","a","s","s","e","s"," ","m","e","s","s","a","g","e","s",".">>,
             << <<"d","e","f","i">> >>),
     TermRow(<<"Y","i","e","l","d"," ","p","o","o","l">>,
             <<"H","o","l","d","s"," ","l","i","q","u","i","d","i","t","y",".">>,
             << <<"d","e","f","i">> >>),
     TermRow(<<"I","n","d","e","x">>,
             <<"L","i","s","t","s"," ","d","a","t","a",".">>,
             << <<"d","a","t","a">> >>),
     TermRow(<<"S","W","A","P">>,
             <<"A","g","a","i","n",".">>,
             <<  >>) >> >>

GlossaryQueries ==
  { <<"s","w","a","p">>,
    <<"y","i","e","l","d"," ","p","o","o","l">>,
    <<"c","r","o","s","s"," ","c","h","a","i","n"," ","s","w","a","p">>,
    <<"C","R","O","S","S"," ","C","H","A","I","N"," ","S","W","A","P"," ","R","O","U","T","E","R">>,
    <<"d","a","t","a">>,
    <<"v","a","l","u","e"," ","s","w","a","p">>,
    <<"s","o","l","v","e","r">>,
    <<>>,
    <<" ","s","w","a","p">>,
    <<"z","z","z">> }

Categories == {AnyCategory, "system-concept", "system-component"}

TranslateArgs ==
  { <<"c","r","o","s","s"," ","c","h","a","i","n"," ","s","w","a","p"," ","r","o","u","t","e","r">>,
    <<"O","r","a","c","l","e">>,
    <<"s","o","l">>,
    <<"I","n","d","e","x">>,
    <<"y","i","e","l","d"," ","p","o","o","l">>,
    <<"N","o","n","e">> }

InitGlossaryQuery ==
  /\ service = "glossary"
  /\ NOTION_TOKEN \in BOOLEAN
  /\ now = 0
  /\ notionClient = [d \in NotionServices |-> FALSE]
  /\ cached = [d \in Services |-> Null]
  /\ lastFetch = [d \in Services |-> NullTime]
  /\ conceptsTable = SearchConceptsTable
  /\ componentsTable = ComponentsTable
  /\ brandPage = BrandPageIntro
  /\ tasks = [t \in Tasks |-> IdleTask]

NextGlossaryQuery ==
  \/ \E query \in GlossaryQueries, category \in Categories :
        StartQuery(1, "searchGlossary", query, category, 0)
  \/ \E title \in TranslateArgs : Start(1, "translate", FALSE, title)
  \/ SecondFetch(1)
  \/ \E db \in {"concepts", "components"}, ok \in BOOLEAN : GlossaryRespond(1, db, ok)
  \/ Finish(1)
  \/ Tick

SpecGlossaryQuery == InitGlossaryQuery /\ [][NextGlossaryQuery]_vars


\* ------------------------------------------------------------------------
\* The snippets of the brand search: one caller searches a page of one
\* section whose body is long, with the letter "x" at every distance from
\* its ends that matters for a context of ContextLength characters.
\* ------------------------------------------------------------------------

\* A text of n letters "a".
Filler(n) == [i \in 1..n |-> "a"]

\* The distances of the "x" from the start and from the end of the body.
Distances == {0, 1, 74, 75, 76, 100}

\* The bodies: an "x" in filler, and filler alone.
LongBodies ==
  {Filler(lead) \o <<"x">> \o Filler(trail) : lead \in Distances, trail \in Distances}
  \cup {Filler(n) : n \in {1, 149, 150, 151}}

SnippetQueries ==
  { <<"x">>, <<"i","n","t","r","o">>, <<"i","n","t","r","o"," ","x">>, <<"a","x">>, <<>> }

InitSnippet ==
  /\ service = "brand"
  /\ NOTION_TOKEN = TRUE
  /\ now = 0
  /\ notionClient = [d \in NotionServices |-> FALSE]
  /\ cached = [d \in Services |-> Null]
  /\ lastFetch = [d \in Services |-> NullTime]
  /\ conceptsTable = ConceptsTable
  /\ componentsTable = ComponentsTable
  /\ \E body \in LongBodies :
       brandPage = << <<BlockIntro, TextBlock("paragraph", body)>> >>
  /\ tasks = [t \in Tasks |-> IdleTask]

NextSnippet ==
  \/ \E query \in SnippetQueries :
        StartQuery(1, "searchBrandBible", query, AnyCategory, 5)
  \/ BrandRespond(1, TRUE)
  \/ Finish(1)

SpecSnippet == InitSnippet /\ [][NextSnippet]_vars

\* ------------------------------------------------------------------------
\* The paginated adapters: one caller fetches once, the glossary from every
\* concepts table of up to MaxRows rows in pages of one or two rows, the
\* brand bible from every page of up to MaxBlocks blocks listed one block at
\* a time; every request succeeds.
\* ------------------------------------------------------------------------

InitPages ==
  /\ service \in NotionServices
  /\ NOTION_TOKEN = TRUE
  /\ now = 0
  /\ notionClient = [d \in NotionServices |-> FALSE]
  /\ cached = [d \in Services |-> Null]
  /\ lastFetch = [d \in Services |-> NullTime]
  /\ IF service = "glossary"
     THEN \E rows \in RowLists, size \in {1, 2} : conceptsTable = Chunk(rows, size)
     ELSE conceptsTable = ConceptsTable
  /\ componentsTable = ComponentsTable
  /\ IF service = "brand"
     THEN \E blocks \in BlockLists : brandPage = Chunk(blocks, 1)
     ELSE brandPage = BrandPageIntro
  /\ tasks = [t \in Tasks |-> IdleTask]

NextPages ==
  \/ Start(1, "fetch", TRUE, <<>>)
  \/ \E db \in {"concepts", "components"} : GlossaryRespond(1, db, TRUE)
  \/ BrandRespond(1, TRUE)

SpecPages == InitPages /\ [][NextPages]_vars

\* ------------------------------------------------------------------------
\* The brand bible while its page is edited upstream: one caller fetches
\* and refreshes, Notion answers or fails, time passes, and between two
\* fetches the page becomes another one.
\* ------------------------------------------------------------------------

\* The brand page is edited in Notion while no listing of it is under way.
EditBrandPage(page) ==
  /\ \A t \in Tasks : tasks[t].pc # "fetching"
  /\ NoMicrotask
  /\ brandPage # page
  /\ brandPage' = page
  /\ UNCHANGED <<service, NOTION_TOKEN, now, notionClient, cached, lastFetch,
                 conceptsTable, componentsTable, tasks>>

InitBrandEdit ==
  /\ Init
  /\ service = "brand"
  /\ NOTION_TOKEN = TRUE

NextBrandEdit ==
  \/ \E op \in {"fetch", "refresh"}, force \in BOOLEAN : Start(1, op, force, <<>>)
  \/ \E ok \in BOOLEAN : BrandRespond(1, ok)
  \/ Finish(1)
  \/ Tick
  \/ \E page \in BrandPages : EditBrandPage(page)

SpecBrandEdit == InitBrandEdit /\ [][NextBrandEdit]_vars

\* ------------------------------------------------------------------------
\* Two overlapping fetches on a cold cache: the first caller's fetch starts
\* with nothing cached, the second caller's fetches start while the first
\* one's requests are in flight, and the responses arrive in any order.
\* ------------------------------------------------------------------------

InitOverlap ==
  /\ Init
  /\ service \in {"glossary", "stats"}
  /\ service = "glossary" => NOTION_TOKEN

\* The first caller fetches, nothing being cached yet and no fetch under way.
StartEarlier(force) ==
  /\ cached[service] = Null
  /\ tasks[2].pc = "idle"
  /\ Start(1, "fetch", force, <<>>)

\* Another caller fetches while the first caller's fetch is in flight.
StartLater(force) ==
  /\ tasks[1].pc = "fetching"
  /\ Start(2, "fetch", force, <<>>)

NextOverlap ==
  \/ \E force \in BOOLEAN : StartEarlier(force)
  \/ \E force \in BOOLEAN : StartLater(force)
  \/ \E t \in Tasks, db \in {"concepts", "components"}, ok \in BOOLEAN :
        GlossaryRespond(t, db, ok)
  \/ \E t \in Tasks, out \in StatsOutcomesFollowed : StatsRespond(t, out)
  \/ Finish(1)
  \/ Tick

SpecOverlap == InitOverlap /\ [][NextOverlap]_vars
\* ------------------------------------------------------------------------
\* Properties
\* ------------------------------------------------------------------------

\* The followed operation, and the steps it takes.
Op == tasks[1]

\* In this step the followed operation calls fetchX.
CallsFetch ==
  \/ tasks[1].pc = "idle" /\ tasks'[1].pc # "idle"
  \/ tasks[1].pc = "second" /\ tasks'[1].pc # "second"

\* In this step the upstream fetch of the followed operation settles.
FetchSettles == tasks[1].pc = "fetching" /\ tasks'[1].pc # "fetching"

\* A snapshot is cached and younger than the time-to-live.
Fresh(d) ==
  /\ cached[d] # Null
  /\ lastFetch[d] # NullTime
  /\ now - lastFetch[d] < TTL(d)

\* The service has an upstream it can ask: the backend API, or Notion with a
\* token.
Configured == service = "stats" \/ NOTION_TOKEN

\* C1: a call of fetchX with forceRefresh = false, made while a snapshot is
\* cached and younger than the TTL, starts no upstream request, returns the
\* cached snapshot itself and leaves the snapshot and its timestamp as they
\* are (all three services).
C1_CacheHit ==
  [][(CallsFetch /\ ~tasks'[1].force /\ Fresh(service)) =>
       /\ cached' = cached
       /\ lastFetch' = lastFetch
       /\ tasks'[1].pc # "fetching"
       /\ tasks'[1].attempts = tasks[1].attempts
       /\ tasks'[1].op = "fetch" =>
            tasks'[1].ret = [kind |-> "snapshot", value |-> cached[service]]]_vars

C1_Witness ==
  /\ Op.pc = "done" /\ Op.op = "fetch" /\ ~Op.force
  /\ Op.attempts = 0
  /\ NOTION_TOKEN /\ service = "glossary"
  /\ Op.ret = [kind |-> "snapshot", value |-> cached[service]]
  /\ lastFetch[service] < now

\* C2: a query operation issued while the cached snapshot is expired starts
\* exactly one upstream fetch, whatever the operation and however the fetch
\* ends (stated for the services that have an upstream to ask).
C2_OneFetchPerQuery ==
  (/\ Op.pc = "done"
   /\ Op.op \in {"fetch", "translate"} /\ ~Op.force
   /\ Op.startExpired
   /\ Configured)
  => Op.attempts = 1

\* C3: glossary and brand: when a snapshot is cached and the upstream request
\* of a refresh fails, the fetch returns the cached snapshot, does not
\* raise, and leaves the snapshot and its timestamp as they are.
C3_StaleWhileError ==
  [][(/\ FetchSettles
      /\ tasks'[1].live = "failed"
      /\ service \in NotionServices
      /\ cached[service] # Null) =>
       /\ cached' = cached
       /\ lastFetch' = lastFetch
       /\ tasks'[1].ret.kind # "throw"
       /\ tasks'[1].op = "fetch" =>
            tasks'[1].ret = [kind |-> "snapshot", value |-> cached[service]]
       /\ tasks'[1].op = "refresh" => tasks'[1].ret.success]_vars

C3_Witness ==
  /\ Op.pc = "done" /\ Op.op = "fetch" /\ Op.force
  /\ Op.live = "failed"
  /\ service = "brand"
  /\ Op.ret = [kind |-> "snapshot", value |-> cached[service]]
  /\ Len(cached[service].sections) = 2
  /\ lastFetch[service] < now

\* C4: stats: when a snapshot is cached and requests of a refresh fail, the
\* fetch returns the cached snapshot and leaves it and its timestamp as
\* they are.
C4_StatsStaleWhileError ==
  [][(/\ FetchSettles
      /\ tasks'[1].live = "failed"
      /\ service = "stats"
      /\ cached[service] # Null) =>
       /\ cached' = cached
       /\ lastFetch' = lastFetch
       /\ tasks'[1].op = "fetch" =>
            tasks'[1].ret = [kind |-> "snapshot", value |-> cached[service]]]_vars

\* C5: glossary and brand: when the upstream request fails and nothing is
\* cached, the fetch returns the hardcoded default snapshot and caches it
\* with the current time; while that snapshot is younger than the TTL a
\* call without forceRefresh is served from it and starts no upstream
\* request.
C5_DefaultIsCachedFresh ==
  [][/\ (/\ FetchSettles
         /\ tasks'[1].live = "failed"
         /\ service \in NotionServices
         /\ cached[service] = Null) =>
          /\ cached'[service] = DefaultSnapshot(service, now)
          /\ lastFetch'[service] = now
          /\ tasks'[1].op = "fetch" =>
               tasks'[1].ret = [kind |-> "snapshot", value |-> DefaultSnapshot(service, now)]
     /\ (/\ CallsFetch /\ ~tasks'[1].force
         /\ service \in NotionServices
         /\ lastFetch[service] # NullTime
         /\ cached[service] = DefaultSnapshot(service, lastFetch[service])
         /\ now - lastFetch[service] < TTL(service)) =>
          /\ tasks'[1].pc # "fetching"
          /\ tasks'[1].attempts = tasks[1].attempts
          /\ cached' = cached /\ lastFetch' = lastFetch]_vars

C5_Witness ==
  /\ Op.pc = "done" /\ Op.op = "fetch" /\ ~Op.force
  /\ Op.attempts = 0 /\ ~Op.startExpired
  /\ NOTION_TOKEN /\ service = "glossary"
  /\ lastFetch[service] # NullTime /\ lastFetch[service] < now
  /\ cached[service] = DefaultSnapshot(service, lastFetch[service])
  /\ Op.ret = [kind |-> "snapshot", value |-> cached[service]]

\* C6 as stated: a call of fetchX with forceRefresh = true starts an
\* upstream fetch before it returns, in every configuration.
C6_ForceAlwaysFetches ==
  (Op.pc = "done" /\ Op.force) => Op.attempts >= 1

\* C6 amended: a call of fetchX with forceRefresh = true starts an upstream
\* fetch before it returns, whatever the cache holds, when the service has
\* an upstream to ask (stats always; glossary and brand when NOTION_TOKEN is
\* set); without the token it starts none.
C6_ForceFetchesWhenConfigured ==
  (Op.pc \in {"fetching", "done"} /\ Op.force) =>
     IF Configured THEN Op.attempts >= 1 ELSE Op.attempts = 0

C6_Witness ==
  /\ Op.pc = "done" /\ Op.op = "fetch" /\ Op.force
  /\ Op.attempts = 1 /\ Op.live = "ok"
  /\ NOTION_TOKEN /\ service = "glossary"
  /\ ~Op.startExpired
  /\ Op.ret.value.lastUpdated > 0

\* C7: when the upstream fetch of refreshGlossary / refreshBrandBible /
\* refreshStats fails, the operation returns success: false.
C7_RefreshReportsFailure ==
  (Op.pc = "done" /\ Op.op = "refresh" /\ Op.live = "failed") => ~Op.ret.success

\* C8: per service, snapshot and timestamp are both unset or both set in
\* every state, and one is written only in a step that writes the other:
\* the timestamp takes the current time and the snapshot is replaced.
C8_PairWrittenTogether ==
  /\ [](\A d \in Services : cached[d] = Null <=> lastFetch[d] = NullTime)
  /\ [][\A d \in Services :
          /\ cached'[d] # cached[d] => (cached'[d] # Null /\ lastFetch'[d] = now)
          /\ lastFetch'[d] # lastFetch[d] =>
               (cached'[d] # cached[d] /\ lastFetch'[d] = now)]_vars

C8_Witness ==
  /\ service = "brand"
  /\ cached["brand"] # Null /\ lastFetch["brand"] = now /\ now > 1
  /\ tasks[2].pc = "fetching" /\ tasks[2].blocks.cursor # 0
  /\ Op.pc = "done" /\ Op.live = "ok"

\* C9: in a stats fetch each of the five fields comes from its own request:
\* a field whose request failed has its empty or zero default, a field whose
\* request succeeded is built from the response, for every set of failing
\* requests.
C9_FieldsIndependent ==
  (Op.pc = "done" /\ Op.live # "none") =>
    LET v == Op.ret.value
        s == Op.seen
    IN /\ Op.ret.kind = "snapshot"
       /\ IF s.networks.ok
          THEN /\ Len(v.networks) = Len(s.networks.data)
               /\ \A i \in 1..Len(v.networks) : v.networks[i].id = s.networks.data[i]
          ELSE v.networks = <<>>
       /\ v.networkCount = Len(v.networks)
       /\ IF s.partners.ok
          THEN /\ Len(v.partners) = Len(s.partners.data.partners)
               /\ \A i \in 1..Len(v.partners) :
                    v.partners[i].address = s.partners.data.partners[i]
          ELSE v.partners = <<>>
       /\ v.partnerCount = Len(v.partners)
       /\ IF s.tokenSupply.ok
          THEN /\ v.tokenSupply.totalSupply = s.tokenSupply.data.totalSupply
               /\ v.tokenSupply.circulatingSupply = s.tokenSupply.data.circulatingSupply
               /\ v.tokenSupply.lockedSupply = s.tokenSupply.data.lockedSupply
          ELSE /\ v.tokenSupply.totalSupply = "0"
               /\ v.tokenSupply.circulatingSupply = "0"
               /\ v.tokenSupply.lockedSupply = "0"
       /\ IF s.moneyMarketAssets.ok
          THEN /\ Len(v.moneyMarketAssets) = Len(s.moneyMarketAssets.data)
               /\ \A i \in 1..Len(v.moneyMarketAssets) :
                    /\ v.moneyMarketAssets[i].symbol = s.moneyMarketAssets.data[i].symbol
                    /\ v.moneyMarketAssets[i].totalSupplied =
                         s.moneyMarketAssets.data[i].totalATokenBalance
                    /\ v.moneyMarketAssets[i].totalBorrowed =
                         s.moneyMarketAssets.data[i].totalVariableDebtTokenBalance
          ELSE v.moneyMarketAssets = <<>>
       /\ v.recentIntentsCount =
            IF s.recentIntentsCount.ok THEN s.recentIntentsCount.data.total ELSE 0

C9_Witness ==
  /\ Op.pc = "done" /\ Op.live = "failed"
  /\ ~Op.seen.partners.ok
  /\ \A e \in Endpoints \ {"partners"} : Op.seen[e].ok
  /\ Op.ret.value.partnerCount = 0
  /\ Op.ret.value.networkCount = 3
  /\ Op.ret.value.tokenSupply.totalSupply = "1500"
  /\ Len(Op.ret.value.moneyMarketAssets) = 1
  /\ Op.ret.value.recentIntentsCount = 12

\* The rows of a table, page after page.
RECURSIVE Flatten(_)
Flatten(table) ==
  IF table = <<>> THEN <<>> ELSE Head(table) \o Flatten(Tail(table))

\* The title of a row: the text of its title property.
RowTitle(row) ==
  LET ps == row.properties
      idx == {i \in 1..Len(ps) : ps[i][2].type = "title"}
  IN IF idx = {} THEN <<>>
     ELSE JoinAll([k \in 1..Len(ps[CHOOSE i \in idx : \A j \in idx : i <= j][2].title) |->
                     ps[CHOOSE i \in idx : \A j \in idx : i <= j][2].title[k].plain_text])

\* The summaries a row offers: the non-empty rich texts under the three
\* accepted field names.
RowSummaries(row) ==
  {s \in {JoinAll([k \in 1..Len(e[2].rich_text) |-> e[2].rich_text[k].plain_text]) :
            e \in {x \in {row.properties[i] : i \in 1..Len(row.properties)} :
                     /\ x[1] \in {"One-sentency summary", "Summary", "Description"}
                     /\ x[2].type = "rich_text"}} :
     s # <<>>}

\* The rows with a non-empty title and a non-empty summary, in input order.
RECURSIVE KeptTitles(_)
KeptTitles(rows) ==
  IF rows = <<>> THEN <<>>
  ELSE (IF RowTitle(Head(rows)) # <<>> /\ RowSummaries(Head(rows)) # {}
        THEN <<RowTitle(Head(rows))>> ELSE <<>>) \o KeptTitles(Tail(rows))

\* C10: the terms of a fetched glossary are exactly the rows with a
\* non-empty title and a non-empty summary, in input order (concepts, then
\* components), each with its own title and one of its summaries; rows with
\* an empty title or an empty summary are absent and cause no failure.
C10_DropRule ==
  (Op.pc = "done" /\ Op.live = "ok" /\ service = "glossary") =>
    LET terms == Op.ret.value.terms
        kept == KeptTitles(Flatten(conceptsTable)) \o KeptTitles(Flatten(componentsTable))
        rows == Flatten(conceptsTable) \o Flatten(componentsTable)
    IN /\ Op.ret.kind = "snapshot"
       /\ [i \in 1..Len(terms) |-> terms[i].title] = kept
       /\ \A i \in 1..Len(terms) :
            /\ terms[i].title # <<>> /\ terms[i].summary # <<>>
            /\ \E j \in 1..Len(rows) :
                 /\ RowTitle(rows[j]) = terms[i].title
                 /\ terms[i].summary \in RowSummaries(rows[j])

C10_Witness ==
  /\ Op.pc = "done" /\ Op.live = "ok"
  /\ conceptsTable = << <<RowNoSummary, RowAMM>>, <<RowNoTitle>> >>
  /\ Len(Op.ret.value.terms) = 2
  /\ Op.ret.value.terms[1].title = <<"A","M","M">>
  /\ Op.ret.value.terms[1].summary = <<"A","n"," ","e","x","c","h","a","n","g","e",".">>
  /\ Op.ret.value.terms[2].title = <<"S","o","l","v","e","r">>


\* ------------------------------------------------------------------------
\* Properties of the brand normalizer
\* ------------------------------------------------------------------------

\* The blocks of the brand page, listing page after listing page.
PageBlocks == SelectSeq(Flatten(brandPage), LAMBDA b : b.full)

\* The trimmed text of the k-th block.
BlockText(k) == Trim(getBlockText(PageBlocks[k]))

\* The element of the set S of numbers that has i - 1 elements below it.
Nth(S, i) == CHOOSE k \in S : Cardinality({m \in S : m < k}) = i - 1

\* The top-level headings with a text: the blocks that open a section.
Openers ==
  {k \in 1..Len(PageBlocks) : PageBlocks[k].type = "heading_1" /\ BlockText(k) # <<>>}

\* The second-level headings with a text between the i-th opener and the
\* next one.
SubOpeners(i) ==
  {k \in 1..Len(PageBlocks) :
     /\ PageBlocks[k].type = "heading_2"
     /\ BlockText(k) # <<>>
     /\ k > Nth(Openers, i)
     /\ i < Cardinality(Openers) => k < Nth(Openers, i + 1)}

\* C11: a cached snapshot parsed from the brand page has one section per
\* top-level heading with a text, in document order, with ids "1", "2", ...
\* and the heading's text as title; section k has one subsection per
\* second-level heading with a text between its heading and the next
\* top-level one, in document order, with ids "k.1", "k.2", ... (the counter
\* restarts in every section); and the page [heading_1 Intro, heading_2
\* Colors, paragraph "Use red."] gives exactly section 1 "Intro" with
\* subsection 1.1 "Colors" whose body is "Use red.".
C11_SectionAndSubsectionIds ==
  (cached["brand"] # Null /\ Openers # {}) =>
    LET sections == cached["brand"].sections
    IN /\ Len(sections) = Cardinality(Openers)
       /\ \A i \in 1..Len(sections) :
            /\ sections[i].id = ToStr(i)
            /\ sections[i].title = BlockText(Nth(Openers, i))
            /\ Len(sections[i].subsections) = Cardinality(SubOpeners(i))
            /\ \A j \in 1..Len(sections[i].subsections) :
                 /\ sections[i].subsections[j].id = ToStr(i) \o <<".">> \o ToStr(j)
                 /\ sections[i].subsections[j].title = BlockText(Nth(SubOpeners(i), j))
       /\ PageBlocks = <<BlockIntro, BlockColors, BlockUseRed>> =>
            sections = << [id |-> <<"1">>, title |-> <<"I","n","t","r","o">>, content |-> <<>>,
                           subsections |-> << [id |-> <<"1", ".", "1">>,
                                               parentId |-> <<"1">>,
                                               title |-> <<"C","o","l","o","r","s">>,
                                               content |-> <<"U","s","e"," ","r","e","d",".">>] >>] >>

\* A page was parsed into two sections that both have a subsection: the
\* second section's first subsection is "2.1".
C11_Witness ==
  /\ service = "brand"
  /\ cached["brand"] # Null
  /\ Op.pc = "done"
  /\ Len(cached["brand"].sections) = 2
  /\ Len(cached["brand"].sections[1].subsections) >= 1
  /\ Len(cached["brand"].sections[2].subsections) >= 1
  /\ cached["brand"].sections[2].subsections[1].id = <<"2", ".", "1">>

\* Every subsection of the snapshot, with the section that lists it.
AllSubsections(brandBible) ==
  {<<i, j>> \in (1..Len(brandBible.sections)) \X (1..MaxBlocks + 1) :
     j <= Len(brandBible.sections[i].subsections)}

\* C12: in every cached brand snapshot the section ids are pairwise
\* distinct, the subsection ids are pairwise distinct over the whole
\* snapshot, and every subsection's parentId is the id of the section that
\* lists it.
C12_IdsUniqueAndParentResolves ==
  cached["brand"] # Null =>
    LET sections == cached["brand"].sections
        subs == AllSubsections(cached["brand"])
    IN /\ \A i, k \in 1..Len(sections) : sections[i].id = sections[k].id => i = k
       /\ \A a, b \in subs :
            sections[a[1]].subsections[a[2]].id = sections[b[1]].subsections[b[2]].id
              => a = b
       /\ \A a \in subs :
            sections[a[1]].subsections[a[2]].parentId = sections[a[1]].id

\* A page was parsed into sections of which one has two subsections and
\* another has none.
C12_Witness ==
  /\ service = "brand"
  /\ cached["brand"] # Null
  /\ Op.pc = "done"
  /\ \E i, k \in 1..Len(cached["brand"].sections) :
       /\ i # k
       /\ Len(cached["brand"].sections[i].subsections) = 2
       /\ Len(cached["brand"].sections[k].subsections) = 0

\* ------------------------------------------------------------------------
\* Properties of the brand queries
\* ------------------------------------------------------------------------

\* The snapshot the finished query of the followed caller was answered
\* from: the cached one (a fetch returns what the cache holds when it
\* returns, and nothing has run since).
BrandView == cached["brand"]

\* C13: getSection(id) returns the section of the current snapshot whose id
\* is id when there is one and null when there is none, getSubsection(id)
\* likewise over the subsections of all sections, and neither raises.
C13_LookupById ==
  (service = "brand" /\ Op.pc = "done" /\ Op.op \in {"getSection", "getSubsection"}) =>
    LET sections == BrandView.sections
        subs == AllSubsections(BrandView)
    IN /\ Op.ret.kind # "throw"
       /\ Op.op = "getSection" =>
            IF \E i \in 1..Len(sections) : sections[i].id = Op.arg
            THEN /\ Op.ret.kind = "section"
                 /\ Op.ret.value.id = Op.arg
                 /\ \E i \in 1..Len(sections) : sections[i] = Op.ret.value
            ELSE Op.ret.kind = "null"
       /\ Op.op = "getSubsection" =>
            IF \E a \in subs : sections[a[1]].subsections[a[2]].id = Op.arg
            THEN /\ Op.ret.kind = "subsection"
                 /\ Op.ret.value.id = Op.arg
                 /\ \E a \in subs : sections[a[1]].subsections[a[2]] = Op.ret.value
            ELSE Op.ret.kind = "null"

\* getSubsection("1.1") found the subsection "Colors" of the parsed page,
\* after the clock had advanced.
C13_Witness ==
  /\ service = "brand"
  /\ Op.pc = "done"
  /\ Op.op = "getSubsection"
  /\ Op.ret.kind = "subsection"
  /\ Op.ret.value.title = <<"C","o","l","o","r","s">>
  /\ now > 0

\* ------------------------------------------------------------------------
\* Properties of the glossary queries
\* ------------------------------------------------------------------------

\* The snapshot the finished query of the followed caller was answered
\* from: the cached one.
GlossaryView == cached["glossary"]

\* The words of a query: the pieces of its lowercased text between runs of
\* whitespace.
QueryWords(query) == SplitWhitespace(ToLowerCase(query))

\* The score the scoring rule gives a term: 10 for every query word its
\* title contains, 5 for every one a tag contains, 2 for every one its
\* summary contains, and 20 when the query is its title (all ignoring case).
RuleScore(term, query) ==
  LET words == QueryWords(query)
      InTitle == {i \in 1..Len(words) : Includes(ToLowerCase(term.title), words[i])}
      InTags == {i \in 1..Len(words) :
                   \E k \in 1..Len(term.tags) : Includes(ToLowerCase(term.tags[k]), words[i])}
      InSummary == {i \in 1..Len(words) : Includes(ToLowerCase(term.summary), words[i])}
  IN 10 * Cardinality(InTitle) + 5 * Cardinality(InTags) + 2 * Cardinality(InSummary)
     + (IF ToLowerCase(term.title) = ToLowerCase(query) THEN 20 ELSE 0)

\* The scores of the terms of a snapshot, term by term.
RECURSIVE RuleScores(_, _)
RuleScores(terms, query) ==
  IF terms = <<>> THEN <<>>
  ELSE <<RuleScore(Head(terms), query)>> \o RuleScores(Tail(terms), query)

\* The terms of the snapshot a search has to return, by their index.
Qualifying(terms, scores, category) ==
  {k \in 1..Len(terms) :
     /\ category = AnyCategory \/ terms[k].category = category
     /\ scores[k] > 0}

\* Term k comes before term m in the result: it scores more, or the same
\* and stands earlier in the snapshot.
Before(scores, k, m) ==
  \/ scores[k] > scores[m]
  \/ scores[k] = scores[m] /\ k < m

\* The index of the term at place r of the result.
AtPlace(scores, Q, r) ==
  CHOOSE k \in Q : Cardinality({m \in Q : Before(scores, m, k)}) = r - 1

\* C14: searchGlossary returns exactly the terms of the snapshot (of the
\* category asked for, if one is) whose score is positive, the score being
\* 10 per query word in the title + 5 per query word in a tag + 2 per query
\* word in the summary + 20 when the lowercased query is the lowercased
\* title, in order of decreasing score and, among equal scores, in snapshot
\* order; and for a query of one word a term with the word in its title and
\* in a tag stands before every term that has it in its summary only.
C14_SearchGlossaryRanking ==
  (service = "glossary" /\ Op.pc = "done" /\ Op.op = "searchGlossary") =>
    LET terms == GlossaryView.terms
        scores == RuleScores(terms, Op.arg)
        Q == Qualifying(terms, scores, Op.category)
        w == QueryWords(Op.arg)[1]
    IN /\ Op.ret.kind = "terms"
       /\ Len(Op.ret.value) = Cardinality(Q)
       /\ \A r \in 1..Len(Op.ret.value) :
            Op.ret.value[r] = terms[AtPlace(scores, Q, r)]
       /\ Len(QueryWords(Op.arg)) = 1 =>
            \A r, s \in 1..Len(Op.ret.value) :
              ( /\ Includes(ToLowerCase(Op.ret.value[r].title), w)
                /\ SomeTagIncludes(Op.ret.value[r], w)
                /\ ~Includes(ToLowerCase(Op.ret.value[s].title), w)
                /\ ~SomeTagIncludes(Op.ret.value[s], w) ) => r < s

\* searchGlossary("solver") on the fetched snapshot returned Solver, which
\* has the word in its title and in a tag and stands last in the snapshot,
\* before Bridge, which has it in its summary only.
C14_Witness ==
  /\ service = "glossary"
  /\ Op.pc = "done"
  /\ Op.op = "searchGlossary"
  /\ Op.arg = <<"s","o","l","v","e","r">>
  /\ Op.ret.kind = "terms"
  /\ Len(Op.ret.value) = 2
  /\ Op.ret.value[1].title = <<"S","o","l","v","e","r">>
  /\ Op.ret.value[2].title = <<"B","r","i","d","g","e">>

\* The terms of the snapshot whose lowercased title is the query, among
\* those of the category asked for, by their index.
TitledAsQuery ==
  {k \in 1..Len(GlossaryView.terms) :
     /\ Op.category = AnyCategory \/ GlossaryView.terms[k].category = Op.category
     /\ ToLowerCase(GlossaryView.terms[k].title) = Op.arg}

\* C15: a search whose query is the exact lowercase title of a term T of
\* the snapshot returns T, and no term with another title stands before T
\* in the result (terms with the same lowercased title as T tie with it and
\* keep snapshot order), whatever the number of words of the title.
C15_ExactTitleRankedFirst ==
  (service = "glossary" /\ Op.pc = "done" /\ Op.op = "searchGlossary") =>
    \A k \in TitledAsQuery :
      \E p \in 1..Len(Op.ret.value) :
        /\ Op.ret.value[p] = GlossaryView.terms[k]
        /\ \A r \in 1..(p - 1) : ToLowerCase(Op.ret.value[r].title) = Op.arg

\* The words searchBrandBible scores with.
BrandWords(query) == SplitWhitespace(ToLowerCase(query))

\* Every section and subsection of a snapshot with its relevance score.
EntityScores(brandBible, queryWords) ==
  LET sections == brandBible.sections
  IN {[sectionId |-> sections[i].id, subsectionId |-> <<>>,
       score |-> calculateRelevanceScore(
                   sections[i].title \o <<" ">> \o sections[i].content, queryWords)] :
        i \in 1..Len(sections)}
     \cup UNION {
       {[sectionId |-> sections[i].id,
         subsectionId |-> <<sections[i].subsections[j].id>>,
         score |-> calculateRelevanceScore(
                     sections[i].subsections[j].title \o <<" ">>
                       \o sections[i].subsections[j].content, queryWords)] :
          j \in 1..Len(sections[i].subsections)} :
       i \in 1..Len(sections)}

\* The entities of a set of scored entities that a result list leaves out.
Omitted(entities, results) ==
  {e \in entities :
     \A r \in 1..Len(results) :
       ~(/\ results[r].sectionId = e.sectionId
         /\ results[r].subsectionId = e.subsectionId)}

SharingPlaces(found, terms) ==
  {k \in 1..Len(terms) :
     /\ terms[k].title # found.title
     /\ \E i \in 1..Len(found.tags) : \E j \in 1..Len(terms[k].tags) :
          found.tags[i] = terms[k].tags[j]}

\* C17: the relatedTerms of a translation are the titles of the first five
\* terms of the snapshot, in snapshot order, that have another title than
\* the found term and share a tag with it under exact equality; the found
\* term's own title is not among them.
C17_RelatedTerms ==
  (service = "glossary" /\ Op.pc = "done" /\ Op.op = "translate"
     /\ Op.ret.kind = "translation") =>
    LET found == Op.term[1]
        terms == GlossaryView.terms
        places == SharingPlaces(found, terms)
        related == Op.ret.relatedTerms
    IN /\ Len(related) <= 5
       /\ Len(related) = Min(5, Cardinality(places))
       /\ \A r \in 1..Len(related) :
            /\ related[r] # found.title
            /\ \E k \in places :
                 /\ Cardinality({m \in places : m < k}) = r - 1
                 /\ related[r] = terms[k].title

\* A translation whose found term shares a tag with more than five other
\* terms: five titles are returned.
C17_Witness ==
  /\ service = "glossary" /\ Op.pc = "done" /\ Op.op = "translate"
  /\ Op.ret.kind = "translation"
  /\ Cardinality(SharingPlaces(Op.term[1], GlossaryView.terms)) > 5
  /\ Len(Op.ret.relatedTerms) = 5

\* C18: no operation raises to its caller: every finished call has
\* completed with a value, whatever the upstream outcome and the argument.
C18_NoOperationRaises ==
  \A t \in Tasks : tasks[t].pc = "done" => tasks[t].ret.kind # "throw"

\* C19: a translation is computed against one snapshot: when translateTerm
\* completes, the term it looked up is a term of the snapshot whose terms it
\* compared tags with, the one its second fetchGlossary() returned.
C19_TranslateOneSnapshot ==
  [][\A t \in Tasks :
       (/\ tasks[t].pc # "done" /\ tasks'[t].pc = "done"
        /\ tasks'[t].op = "translate" /\ tasks'[t].ret.kind = "translation") =>
         \E k \in 1..Len(cached'["glossary"].terms) :
           cached'["glossary"].terms[k] = tasks'[t].term[1]]_vars

\* C20: with NOTION_TOKEN unset, no glossary or brand fetch awaits an
\* upstream request; the cache holds nothing or the hardcoded content; an
\* operation completes in the step that calls the fetch, without raising: a
\* fetch not served from a valid cache caches the hardcoded content at the
\* current time, a fetch returns the cached snapshot, and a refresh reports
\* success.
C20_NoTokenFallback ==
  [][(service \in NotionServices /\ ~NOTION_TOKEN) =>
       /\ \A t \in Tasks : tasks'[t].pc # "fetching"
       /\ ~notionClient'[service]
       /\ \/ cached'[service] = Null
          \/ cached'[service] = DefaultSnapshot(service, lastFetch'[service])
       /\ \A t \in Tasks :
            (tasks[t].pc # "done" /\ tasks'[t].pc = "done") =>
              /\ cached'[service] # Null
              /\ IF ServeFromCache(service, tasks'[t].force)
                 THEN cached'[service] = cached[service]
                 ELSE lastFetch'[service] = now
              /\ tasks'[t].ret.kind # "throw"
              /\ tasks'[t].ret.kind = "snapshot" =>
                   tasks'[t].ret.value = cached'[service]
              /\ tasks'[t].ret.kind = "refresh" => tasks'[t].ret.success]_vars

\* Without a token, after time has passed, a refresh has reported success
\* and the hardcoded content is cached anew.
C20_Witness ==
  /\ service \in NotionServices /\ ~NOTION_TOKEN
  /\ now > 0
  /\ lastFetch[service] = now
  /\ cached[service] = DefaultSnapshot(service, now)
  /\ \E t \in Tasks :
       /\ tasks[t].pc = "done" /\ tasks[t].op = "refresh"
       /\ tasks[t].ret.success

\* The blocks of the page that count: those from the first block that opens
\* a section on, without the blocks whose trimmed text is empty.
CountingBlocks ==
  LET first == Nth(Openers, 1)
      from == SubSeq(PageBlocks, first, Len(PageBlocks))
  IN SelectSeq(from, LAMBDA b : Trim(getBlockText(b)) # <<>>)

\* C21: the blocks before the first top-level heading with a text (second-
\* and third-level headings included) and the blocks whose trimmed text is
\* empty contribute nothing: the cached snapshot of a page is the one of the
\* page without them, and a page without such a heading gives no section of
\* its own (the snapshot is the hardcoded one).
C21_DroppedBlocksContributeNothing ==
  (service = "brand" /\ cached["brand"] # Null) =>
    IF Openers = {}
    THEN cached["brand"].sections = createDefaultBrandBible(now).sections
    ELSE cached["brand"].sections = ParseLoop(ParseStart, CountingBlocks).sections

\* A page that starts with a second-level heading and has a top-level
\* heading with a blank text after the one that opens the section: one
\* section, with the paragraph that follows the blank heading as its body.
C21_Witness ==
  /\ service = "brand" /\ Op.pc = "done" /\ cached["brand"] # Null
  /\ PageBlocks = <<BlockColors, BlockIntro, BlockBlankHeading, BlockUseRed>>
  /\ cached["brand"].sections =
       << [id |-> <<"1">>, title |-> <<"I","n","t","r","o">>,
           content |-> <<"U","s","e"," ","r","e","d",".">>, subsections |-> <<>>] >>

\* The third-level headings with a text after the first block that opens a
\* section: the ones the normalized model keeps.
KeptThirdLevel ==
  {k \in 1..Len(PageBlocks) :
     /\ PageBlocks[k].type = "heading_3"
     /\ BlockText(k) # <<>>
     /\ Openers # {}
     /\ k > Nth(Openers, 1)}

\* C22: in a snapshot parsed from the page, the text of a kept third-level
\* heading is in no section body, and a subsection body that has it has it
\* emphasized, as **text**.
C22_ThirdLevelEmphasized ==
  (service = "brand" /\ cached["brand"] # Null /\ Openers # {}) =>
    \A k \in KeptThirdLevel :
      \A i \in 1..Len(cached["brand"].sections) :
        LET section == cached["brand"].sections[i]
        IN /\ ~Includes(section.content, BlockText(k))
           /\ \A j \in 1..Len(section.subsections) :
                Includes(section.subsections[j].content, BlockText(k)) =>
                  Includes(section.subsections[j].content,
                           <<"*", "*">> \o BlockText(k) \o <<"*", "*">>)

\* The section or subsection a search result names.
ResultEntity(brandBible, result) ==
  IF result.subsectionId = <<>>
  THEN GetSection(brandBible, result.sectionId)[1]
  ELSE GetSubsection(brandBible, result.subsectionId[1])[1]

\* The combined title + body text, lowercased, of the section or subsection
\* a search result names.
ResultText(brandBible, result) ==
  LET entity == ResultEntity(brandBible, result)
  IN ToLowerCase(entity.title \o <<" ">> \o entity.content)

\* The number of matches of every query word in a text, added up.
RECURSIVE MatchesOfWords(_, _)
MatchesOfWords(textLower, words) ==
  IF words = <<>> THEN 0
  ELSE CountMatches(textLower, Head(words), 0) + MatchesOfWords(textLower, Tail(words))

\* C23: a result of searchBrandBible whose combined title + body text has
\* the full query phrase (the query words joined by single spaces) scores
\* its word matches plus a phrase bonus of exactly 5, whatever the number of
\* query words.
C23_PhraseBonusFlat ==
  (service = "brand" /\ Op.pc = "done" /\ Op.op = "searchBrandBible"
     /\ Op.ret.kind = "results") =>
    \A r \in 1..Len(Op.ret.value) :
      LET textLower == ResultText(BrandView, Op.ret.value[r])
          words == BrandWords(Op.arg)
      IN Includes(textLower, JoinSpace(words)) =>
           Op.ret.value[r].relevanceScore = MatchesOfWords(textLower, words) + 5

\* No query word occurs in the lowercased body.
NoWordInBody(body, words) ==
  \A w \in 1..Len(words) : ~Includes(ToLowerCase(body), words[w])

\* C24: the matchedContent of a result of searchBrandBible is an excerpt of
\* at most 150 characters of the entity's body, with "..." before it exactly
\* when it does not start at the first character of the body and "..." after
\* it exactly when it does not end at the last one; when no query word
\* occurs in the body the excerpt is the first 150 characters of the body.
C24_SnippetBounded ==
  (service = "brand" /\ Op.pc = "done" /\ Op.op = "searchBrandBible"
     /\ Op.ret.kind = "results") =>
    \A r \in 1..Len(Op.ret.value) :
      LET body == ResultEntity(BrandView, Op.ret.value[r]).content
          snippet == Op.ret.value[r].matchedContent
          dots == <<".", ".", ".">>
      IN \E start \in 0..Len(body) :
           \E end \in start..Min(Len(body), start + 150) :
             LET before == IF start > 0 THEN dots ELSE <<>>
                 after == IF end < Len(body) THEN dots ELSE <<>>
             IN /\ Len(snippet) = Len(before) + (end - start) + Len(after)
                /\ snippet = before \o SubSeq(body, start + 1, end) \o after
                /\ NoWordInBody(body, BrandWords(Op.arg)) =>
                     start = 0 /\ end = Min(150, Len(body))

\* The listings the adapters of the service page through, with the table
\* each one lists.
Listings ==
  IF service = "glossary"
  THEN {<<"concepts", conceptsTable>>, <<"components", componentsTable>>}
  ELSE {<<"blocks", brandPage>>}

\* The number of pages of a table a query has been answered: all of them
\* when it is done, else those before the page its cursor names.
Answered(query, table) ==
  IF query.done THEN Len(table)
  ELSE IF query.cursor = 0 THEN 0 ELSE query.cursor - 1

\* The records an adapter keeps of the first n pages of a table, in page
\* order.
RecordsOfPages(name, table, n) ==
  LET records == Flatten(SubSeq(table, 1, n))
  IN CASE name = "concepts" -> TermsOfResults(records, "system-concept")
       [] name = "components" -> TermsOfResults(records, "system-component")
       [] name = "blocks" -> BlocksOfResults(records)

\* C25: while a fetch pages through a listing, what it holds is the records
\* of the pages before its cursor, in page order; every response moves it
\* one page on (no page is skipped or asked for twice) and it is done
\* exactly when the last page has been answered; the snapshot of a completed
\* fetch is built from the records of every page.
C25_CursorsFollowedToTheEnd ==
  [][\A t \in Tasks :
       /\ tasks'[t].pc = "fetching" =>
            \A l \in Listings :
              LET query == tasks'[t][l[1]]
                  answered == Answered(query, l[2])
              IN /\ query.items = RecordsOfPages(l[1], l[2], answered)
                 /\ query.done <=> answered = Len(l[2])
                 /\ tasks[t].pc = "fetching" =>
                      \/ query = tasks[t][l[1]]
                      \/ answered = Answered(tasks[t][l[1]], l[2]) + 1
       /\ (tasks[t].pc = "fetching" /\ tasks'[t].pc = "done") =>
            /\ \E l \in Listings :
                 /\ Answered(tasks[t][l[1]], l[2]) = Len(l[2]) - 1
                 /\ \A o \in Listings \ {l} : tasks[t][o[1]].done
            /\ IF service = "glossary"
               THEN cached'["glossary"].terms =
                      RecordsOfPages("concepts", conceptsTable, Len(conceptsTable))
                      \o RecordsOfPages("components", componentsTable, Len(componentsTable))
               ELSE BrandFetched(RecordsOfPages("blocks", brandPage, Len(brandPage))).value
                      = cached'["brand"]]_vars

\* A fetch has completed after paging through a listing of three pages or
\* more, and the snapshot has a record of the last page.
C25_Witness ==
  /\ Op.pc = "done" /\ Op.live = "ok"
  /\ \/ /\ service = "brand"
        /\ Len(brandPage) >= 3
        /\ brandPage[Len(brandPage)] = <<BlockUseRed>>
        /\ \E i \in 1..Len(cached["brand"].sections) :
             Includes(cached["brand"].sections[i].content, BlockText(Len(PageBlocks)))
     \/ /\ service = "glossary"
        /\ Len(conceptsTable) >= 3
        /\ Len(cached["glossary"].terms) >= 4

\* C26: when translateTerm has looked its argument up with getTerm and the
\* snapshot has a term whose title equals the argument ignoring case, the
\* term getTerm returned is one with that title, even when a term earlier in
\* the snapshot has the argument inside its title.
C26_GetTermPrefersExactTitle ==
  (service = "glossary" /\ Op.op = "translate" /\ Op.pc = "second") =>
    ((\E k \in 1..Len(GlossaryView.terms) :
        ToLowerCase(GlossaryView.terms[k].title) = ToLowerCase(Op.arg))
     => ToLowerCase(Op.term[1].title) = ToLowerCase(Op.arg))

\* The cached brand snapshot was built from a live fetch: it is not the
\* hardcoded one.
LiveBrandCached(c) ==
  /\ c["brand"] # Null
  /\ c["brand"].sections # createDefaultBrandBible(0).sections

\* C27: once a brand snapshot built from a live fetch is cached, no step
\* replaces it with the hardcoded default snapshot.
C27_LiveSnapshotNotReplacedByDefault ==
  [][LiveBrandCached(cached) => LiveBrandCached(cached')]_vars

\* C28: of two overlapping fetches, the one that started earlier never
\* overwrites what the one that started later stored, and the fetch
\* timestamp never decreases.  The first caller's fetch started with nothing
\* cached, so a snapshot cached while it is in flight was stored by a fetch
\* that started after it.
C28_LaterStartedFetchWins ==
  [][/\ lastFetch'[service] >= lastFetch[service]
     /\ (/\ tasks[1].pc = "fetching" /\ tasks'[1].pc = "done"
         /\ cached[service] # Null)
        => cached'[service] = cached[service]]_vars

\* The terms of the complete results of both databases, concepts first.
CompleteGlossaryTerms ==
  RecordsOfPages("concepts", conceptsTable, Len(conceptsTable))
  \o RecordsOfPages("components", componentsTable, Len(componentsTable))

\* C29: every cached glossary snapshot holds the hardcoded terms or the
\* complete results of both databases, concepts first; a fetch in which a
\* query failed leaves the cache as it was, or caches the hardcoded snapshot
\* when nothing was cached.
C29_GlossaryAllOrNothing ==
  [][service = "glossary" =>
       /\ cached'["glossary"] # Null =>
            \/ cached'["glossary"].terms = DefaultSnapshot("glossary", 0).terms
            \/ cached'["glossary"].terms = CompleteGlossaryTerms
       /\ (Op.pc = "fetching" /\ Op'.pc = "done" /\ Op'.live = "failed") =>
            IF cached["glossary"] = Null
            THEN cached'["glossary"] = DefaultSnapshot("glossary", now)
            ELSE cached'["glossary"] = cached["glossary"]]_vars

\* A fetch with the token set has ended on a failed query with nothing
\* cached before: the hardcoded snapshot is cached.
C29_Witness ==
  /\ service = "glossary" /\ NOTION_TOKEN
  /\ Op.pc = "done" /\ Op.live = "failed" /\ Op.attempts = 1
  /\ ~Op.startExpired
  /\ cached["glossary"] = DefaultSnapshot("glossary", lastFetch["glossary"])

\* C30: searchGlossary returns a term only if a non-empty word of the query
\* occurs, ignoring case, in its title, in one of its tags or in its
\* summary; so an empty query, and a query with leading or trailing
\* whitespace, return no term that has none of the non-empty words.
C30_OnlyTermsMatchingAWord ==
  (service = "glossary" /\ Op.pc = "done" /\ Op.op = "searchGlossary") =>
    \A r \in 1..Len(Op.ret.value) :
      LET term == Op.ret.value[r]
          words == QueryWords(Op.arg)
      IN \E w \in 1..Len(words) :
           /\ words[w] # <<>>
           /\ \/ Includes(ToLowerCase(term.title), words[w])
              \/ Includes(ToLowerCase(term.summary), words[w])
              \/ \E g \in 1..Len(term.tags) :
                   Includes(ToLowerCase(term.tags[g]), words[w])
====
